---- MODULE Spec2Model ----
(***************************************************************************)
(* State-machine model of ACPBackend (lib/ai-backends/acp.js): the         *)
(* JSON-RPC client that drives one `kiro-cli acp` child process.           *)
(*                                                                         *)
(* Granularity: one action per synchronous run of JavaScript: a public     *)
(* call up to its first await, an event handler, a timer, or the           *)
(* continuation of an await.  Continuations whose promise has settled are  *)
(* microtasks: they run before any I/O event or timer (guard ~Busy on      *)
(* those).  A public call is made from an event handler of the embedding   *)
(* program (no microtask is queued then) or from a caller's continuation   *)
(* that follows the completion of one of its calls (chain).                *)
(***************************************************************************)
EXTENDS Naturals, Sequences, FiniteSets

\* ------------------------------------------------------------------ bounds
MaxOps    == 3   \* callers of _ensureSession in a run without turns
MaxTurns  == 1   \* chatStream calls in a run with turns
MaxNotifs == 2   \* notifications the agents send in a run with turns
MaxLines  == 2   \* complete lines in one stdout read
MaxDisposes == 1 \* dispose() calls in a run
MaxOverlap == 2  \* dispose() calls in a run about disposal
MaxCancels == 1  \* cancel() calls in a run
MaxResets == 1   \* resetSession() calls in a run
MaxOptions == 3  \* options of one permission request
MaxShared == 2   \* chatStream calls in a run with concurrent turns
MaxLates == 1    \* responses arriving after their request timed out
MaxGarbled == 6  \* bytes of a child's output, in a run with malformed lines
MaxBytes == 4    \* bytes of a child's output, in a run about framing

VARIABLES
  process,        \* this._process: 0 = null, else index into child
  child,          \* every child ever spawned: [killed, errored, closed]
  requestId,      \* this._requestId
  pending,        \* this._pending: id -> [method, child, sid]
  notifications,  \* this._notifications: sequence of turn handlers (op ids)
  sessionId,      \* this._sessionId: 0 = null
  initialized,    \* this._initialized
  models,         \* this._models: is a catalog cached?
  modes,          \* this._modes: is a catalog cached?
  contextUsage,   \* this._contextUsage: 0 = null, else the value
  compacting,     \* this._compacting
  commands,       \* this._commands: is a catalog cached?
  sessionLock,    \* this._sessionLock: 0 = null, else the op whose promise it is
  persisted,      \* the session file: [kind, sessionId, timestamp]; kind is
                  \*    "missing", "garbage" or "json"
  op,             \* the callers: one record per operation
  disp,           \* the dispose() calls: one record [pc, req, settled] each
  chain,          \* a caller's continuation is queued among the microtasks
  ahead,          \* the callers whose continuation is queued ahead of it
                  \*   (caller), and ahead of a dispose() call's (disp)
  timers,         \* ids whose 60-second timer is armed
  twice,          \* history: some promise was settled a second time
  left,           \* what the environment may still do:
                  \*   [ops, turns, notifs, disposes, cancels, resets,
                  \*    usages, others, lates]
  nops,           \* operations started so far
  nnotif,         \* notifications sent by the agents so far
  nsid,           \* session identifiers minted by the agents so far
  editModeEnabled,\* this.editModeEnabled
  reply,          \* the last inbound request handled and the frame written for it
  disposed,       \* history: a dispose() of a running client has completed
  late,           \* history: the request that timed out, in a run with late
                  \*    responses, and whether a response to it was read since
  stream,         \* the bytes the child writes to its stdout in the run
  nread,          \* how many of them have been delivered in 'data' events
  buffer,         \* this._buffer: the characters of the incomplete line
  dispatched,     \* history: the lines parsed and dispatched so far
  current,        \* currentModelId / currentModeId of the cached catalogs:
                  \*    [model, mode], "" while the catalog is not cached
  args,           \* the arguments of a chatStream call whose prompt is assembled
  prompt          \* the content blocks assembled from them

vars == <<process, child, requestId, pending, notifications, sessionId,
          initialized, models, modes, contextUsage, compacting, commands,
          sessionLock, persisted, op, disp, chain, ahead, timers, twice, left, nops,
          nnotif, nsid, editModeEnabled, reply, disposed, late,
          stream, nread, buffer, dispatched, current, args, prompt>>

\* The state of the permission handler, and the history of disposal.
perm == <<editModeEnabled, reply>>
hist == <<disposed, late>>

\* The reader's buffer, explored on its own.
wire == <<stream, nread, buffer, dispatched>>

\* The prompt of a turn, assembled on its own.
assembly == <<args, prompt>>

\* The environments explored: many concurrent session users, or turns with
\* notifications.
Profiles == {[ops |-> MaxOps, turns |-> 0, notifs |-> 0, disposes |-> MaxDisposes,
              cancels |-> 0, resets |-> 0, usages |-> 0, others |-> 0, lates |-> 0, unknowns |-> 0],
             [ops |-> MaxTurns, turns |-> MaxTurns, notifs |-> MaxNotifs,
              disposes |-> MaxDisposes, cancels |-> 0, resets |-> 0, usages |-> 0, others |-> 0, lates |-> 0, unknowns |-> 0],
             \* a turn with cancel and resetSession
             [ops |-> MaxTurns, turns |-> MaxTurns, notifs |-> 1,
              disposes |-> 0, cancels |-> MaxCancels, resets |-> MaxResets,
              usages |-> 0, others |-> 0, lates |-> 0, unknowns |-> 0],
             \* a turn with kiro.dev/metadata notifications
             [ops |-> MaxTurns, turns |-> MaxTurns, notifs |-> 1,
              disposes |-> 0, cancels |-> 0, resets |-> 0,
              usages |-> 1, others |-> 1, lates |-> 0, unknowns |-> 0],
             \* two callers with resetSession
             [ops |-> 2, turns |-> 0, notifs |-> 0,
              disposes |-> 0, cancels |-> 0, resets |-> MaxResets,
              usages |-> 0, others |-> 0, lates |-> 0, unknowns |-> 0],
             \* one caller and overlapping disposals
             [ops |-> 1, turns |-> 0, notifs |-> 0, disposes |-> MaxOverlap,
              cancels |-> 0, resets |-> 0, usages |-> 0, others |-> 0, lates |-> 0, unknowns |-> 0],
             \* a turn with responses that arrive after the deadline
             [ops |-> MaxTurns, turns |-> MaxTurns, notifs |-> 0, disposes |-> 0,
              cancels |-> 0, resets |-> 0, usages |-> 0, others |-> 0,
              lates |-> MaxLates, unknowns |-> 0]}

\* A turn with session/update notifications of a kind the handler does not
\* know.
MaxUnknowns == 1
UnknownProfile == [ops |-> 1, turns |-> 1, notifs |-> 1, disposes |-> 0, cancels |-> 0,
                   resets |-> 0, usages |-> 0, others |-> 0, lates |-> 0,
                   unknowns |-> MaxUnknowns]

Larger(a, b) == IF a >= b THEN a ELSE b

\* One record per caller: the session users and the cancel() calls.
Ops == 1..Larger(MaxOps, MaxTurns + MaxCancels)

Disps == 1..Larger(MaxDisposes, MaxOverlap)

\* ------------------------------------------------------------------ values
\* The identifier found in a session file left by a previous run.
OldSid == 1

\* Outcome of a promise: st = "pending" | "ok" | "err".
NoRes == [st |-> "pending", sid |-> 0, cu |-> 0, cat |-> FALSE, msg |-> ""]
OkRes(sid, cu, cat) == [st |-> "ok", sid |-> sid, cu |-> cu, cat |-> cat, msg |-> ""]
ErrRes(msg) == [st |-> "err", sid |-> 0, cu |-> 0, cat |-> FALSE, msg |-> msg]

\* The methods of the requests the client sends.
Requests == {"initialize", "session/load", "session/new", "session/prompt",
             "session/cancel", "shutdown", "session/set_model", "session/set_mode",
             "_kiro.dev/commands/available"}

\* Faulty variant: the message does not say which request timed out.
TimedOutPlain(method) == "ACP request timed out"

\* `ACP request timed out: ${method}`, line 254.
TimedOut(method) ==
  CASE method = "initialize" -> "ACP request timed out: initialize"
    [] method = "session/load" -> "ACP request timed out: session/load"
    [] method = "session/new" -> "ACP request timed out: session/new"
    [] method = "session/prompt" -> "ACP request timed out: session/prompt"
    [] method = "session/cancel" -> "ACP request timed out: session/cancel"
    [] method = "shutdown" -> "ACP request timed out: shutdown"
    [] method = "session/set_model" -> "ACP request timed out: session/set_model"
    [] method = "session/set_mode" -> "ACP request timed out: session/set_mode"
    [] method = "_kiro.dev/commands/available" ->
         "ACP request timed out: _kiro.dev/commands/available"

\* Turn events; n is the agent's notification number, text an error message.
Event(type, n, text) == [type |-> type, n |-> n, text |-> text]
\* Faulty variant: the loop of the generator goes on after an error event.
TerminalDone(e) == e.type = "done"

Terminal(e) == e.type \in {"done", "error"}
NoEvent == Event("none", 0, "")

IdleOp == [kind |-> "none", pc |-> "idle", req |-> 0, res |-> NoRes,
           leader |-> 0, est |-> NoRes, saved |-> 0,
           preq |-> 0, pres |-> NoRes, handled |-> FALSE,
           queue |-> <<>>, done |-> FALSE, resolveNext |-> FALSE,
           item |-> NoEvent, sent |-> <<>>, yielded |-> <<>>, ended |-> FALSE,
           raised |-> FALSE]

IdleDisp == [pc |-> "idle", req |-> 0, settled |-> FALSE]

NoFile == [kind |-> "missing", sessionId |-> 0, timestamp |-> 0]

\* A session file that JSON.parse rejects.
Garbage == [kind |-> "garbage", sessionId |-> 0, timestamp |-> 0]

\* A session file holding {sessionId, timestamp}.
Record(sid, ts) == [kind |-> "json", sessionId |-> sid, timestamp |-> ts]

\* 24 * 60 * 60 * 1000 ms (line 323), and Date.now() in the run: the runs are
\* short, and later than a day after the epoch.
Day == 86400000
Now == Day + Day

\* The session files found at startup: none, one written less than a day ago,
\* one written a day ago.
StartFiles == {NoFile, Record(OldSid, Now - Day + 1), Record(OldSid, Now - Day)}

\* The session files tried when the loading is looked at: also one that does
\* not parse, one older than a day, one written a moment ago by a clock that
\* is ahead, and one without an identifier.
ResumeFiles == StartFiles \cup {Garbage, Record(OldSid, Now - Day - 1),
                                Record(OldSid, Now + 1), Record(0, Now - 1)}

\* No catalog is cached.
NoCurrent == [model |-> "", mode |-> ""]

\* No request has timed out.
NoLate == [id |-> 0, read |-> FALSE]

\* Nothing written by a child is explored byte by byte.
NoOutput == stream = <<>> /\ nread = 0 /\ buffer = <<>> /\ dispatched = <<>>

\* No prompt is assembled on its own.
NoArgs == [systemPrompt |-> "", messages |-> <<>>, documentResource |-> <<>>,
           imageAttachments |-> <<>>, fileAttachments |-> <<>>]
NoPrompt == args = NoArgs /\ prompt = <<>>

\* No inbound request handled yet.  Else: the id, the method and the options
\* of the request, the child the response frame was written to (0: none written),
\* the frame's id and the frame's result: {outcome: {outcome: "selected",
\* optionId}} or {}.
NoReply == [asked |-> 0, method |-> "", options |-> <<>>, child |-> 0, id |-> 0, selected |-> FALSE,
            optionId |-> ""]

\* The constructor, lines 84-100, and whatever session file a previous run left.
InitWith(files, profiles) ==
  /\ process = 0
  /\ child = <<>>
  /\ requestId = 0
  /\ pending = <<>>
  /\ notifications = <<>>
  /\ sessionId = 0
  /\ initialized = FALSE
  /\ models = FALSE
  /\ modes = FALSE
  /\ contextUsage = 0
  /\ compacting = FALSE
  /\ commands = FALSE
  /\ sessionLock = 0
  /\ persisted \in files
  /\ op = [o \in Ops |-> IdleOp]
  /\ disp = [d \in Disps |-> IdleDisp]
  /\ chain = FALSE
  /\ ahead = [caller |-> {}, disp |-> [d \in Disps |-> {}]]
  /\ timers = {}
  /\ twice = FALSE
  /\ left \in profiles
  /\ nops = 0
  /\ nnotif = 0
  /\ nsid = OldSid
  /\ editModeEnabled = FALSE
  /\ reply = NoReply
  /\ disposed = FALSE
  /\ late = NoLate
  /\ NoOutput
  /\ NoPrompt
  /\ current = NoCurrent

Init == InitWith(StartFiles, Profiles)

\* ------------------------------------------------------- request plumbing
Live == DOMAIN pending

\* _sendRequest, lines 243-246: the guard that rejects with "not running".
CanSend(proc, ch) == proc # 0 /\ ~ch[proc].killed

\* Faulty variant: the numbering starts again when nothing is pending.
NextIdRestarting == Cardinality(Live) + 1

\* _sendRequest, line 248: the id the next request gets.
NextId == requestId + 1

\* Faulty variant: the table is replaced by the new entry.
RegisteredAlone(pend, id, method, proc, sid) ==
  [i \in {id} |-> [method |-> method, child |-> proc, sid |-> sid]]

\* _sendRequest, lines 249-266: the entry registered for the frame written
\* (method, the child written to, the sessionId parameter).
Registered(pend, id, method, proc, sid) ==
  [i \in DOMAIN pend \cup {id} |->
     IF i = id THEN [method |-> method, child |-> proc, sid |-> sid] ELSE pend[i]]

\* Faulty variant: the entry is left in the table when its outcome arrives.
Kept(pend, S) == pend

\* this._pending.delete(id) for the ids in S.
Deleted(pend, S) == [i \in DOMAIN pend \ S |-> pend[i]]

\* Faulty variant: only the establishment requests are settled; a prompt
\* waiting on one of the ids is left pending.
OpSettledRequest(rec, S, r) ==
  IF rec.req \in S THEN [rec EXCEPT !.res = r] ELSE rec

\* The waiters of the ids in S see their promise settle with r.
OpSettled(rec, S, r) ==
  LET a == IF rec.req \in S THEN [rec EXCEPT !.res = r] ELSE rec
  IN  IF a.preq \in S THEN [a EXCEPT !.pres = r] ELSE a

\* Promise.race of line 742 settles when the shutdown request does; the
\* catch of line 746 discards the outcome.
DispSettled(d, S) ==
  IF d.req \in S /\ d.pc = "shutdown" THEN [d EXCEPT !.settled = TRUE] ELSE d

\* The same for every dispose() call under way.
DispsSettled(ds, S) == [d \in Disps |-> DispSettled(ds[d], S)]

\* Does settling the ids in S hit a promise that has settled before?
Resettled(ops, S) ==
  \E o \in Ops : \/ ops[o].req \in S /\ ops[o].res.st # "pending"
                 \/ ops[o].preq \in S /\ ops[o].pres.st # "pending"

\* ---------------------------------------------------------------- persistence
\* Faulty variant: a record of exactly 24 hours is still resumed.
LoadSessionIdInclusive ==
  IF /\ persisted.kind = "json"
     /\ persisted.sessionId # 0 /\ persisted.timestamp # 0
     /\ Now - persisted.timestamp <= Day
    THEN persisted.sessionId ELSE 0

\* _loadSessionId, lines 317-328: the file exists and parses (else the catch
\* returns null), sessionId and timestamp are truthy and the record is less
\* than 24h old.
LoadSessionId ==
  IF /\ persisted.kind = "json"
     /\ persisted.sessionId # 0 /\ persisted.timestamp # 0
     /\ Now - persisted.timestamp < Day
    THEN persisted.sessionId ELSE 0

\* _saveSessionId, lines 309-315.
SavedRecord(sid) == Record(sid, Now)

\* Faulty variant: the session file is left in place.
KeepSessionId == persisted

\* _clearSessionId, lines 330-334: the file is unlinked.
ClearSessionId == NoFile

\* Faulty variant: the cleanup empties the table without rejecting.
CleanedNone(err) == op

\* ------------------------------------------------------------------ _cleanup
\* Lines 292-294: every pending entry is rejected with err.
CleanedOps(err) == [o \in Ops |-> OpSettled(op[o], Live, ErrRes(err))]

\* Faulty variant: the flag survives the cleanup.
KeepInitialized == initialized

\* _cleanup, line 277: the next operation initializes again.
ClearInitialized == FALSE

\* Faulty variant: the session identifier survives the cleanup.
KeptSession == sessionId

\* _cleanup, line 276: no session.
NoSession == 0

\* _cleanup(err), lines 275-297.
Cleanup(err) ==
  /\ sessionId' = NoSession
  /\ initialized' = ClearInitialized
  /\ models' = FALSE
  /\ modes' = FALSE
  /\ contextUsage' = 0
  /\ compacting' = FALSE
  /\ commands' = FALSE
  /\ sessionLock' = 0
  /\ process' = 0
  /\ persisted' = ClearSessionId
  /\ twice' = (twice \/ Resettled(op, Live))
  /\ timers' = timers \ Live
  /\ pending' = <<>>
  /\ notifications' = <<>>
  /\ op' = CleanedOps(err)
  /\ current' = NoCurrent

\* ------------------------------------------------------------ microtasks
\* `await this._ensureSession()` has a value for caller o: the first caller
\* after its finally; a later caller after the first one's finally.
HasSession(o) ==
  \/ op[o].pc = "got_session"
  \/ /\ op[o].pc = "follow" /\ op[o].est.st # "pending"
     /\ op[op[o].leader].pc # "ensure_finally"

\* A continuation is ready when the promise it awaits has settled.
OpReady(o) ==
  \/ /\ op[o].pc \in {"initialize", "load", "new", "cancel", "set", "fetch", "test"}
     /\ op[o].res.st # "pending"
  \/ op[o].pc \in {"do_ensure", "ensure_finally", "woken"}
  \/ HasSession(o)
  \/ op[o].pres.st # "pending" /\ ~op[o].handled

DispReady(d) == disp[d].pc = "shutdown" /\ disp[d].settled

Busy == (\E d \in Disps : DispReady(d)) \/ \E o \in Ops : OpReady(o)

\* A public call can be made now: from an event handler of the embedding
\* program when no microtask is queued, or from a caller's continuation once
\* the continuations queued ahead of it have run.
CanCall == ~Busy \/ (chain /\ ahead.caller = {})

\* The callers whose continuation is queued after the step.
ReadyAfter == {o \in Ops : OpReady(o)'}

\* A dispose() call resumes two microtasks after its race settles (the race's
\* reaction, then the await), a caller one microtask after its promise does:
\* the callers that are ready when the race settles resume first.  ran: the
\* callers that resume in this step.
Behind(ran) ==
  [d \in Disps |-> IF ~DispReady(d)' THEN {}
                   ELSE IF ~DispReady(d) THEN ReadyAfter
                   ELSE ahead.disp[d] \ ran]

\* The step runs the caller's own code (a public call it makes): it can go
\* on calling.
CallerRuns == chain' = Busy' /\ ahead' = [caller |-> {}, disp |-> Behind({})]

\* The same, the code being the continuation of caller o's await.
CallerResumes(o) == chain' = Busy' /\ ahead' = [caller |-> {}, disp |-> Behind({o})]

\* dispose() returns: the continuation of `await dispose()` is queued behind
\* the continuations that the cleanup and earlier steps have queued.
CallerQueued == chain' = Busy' /\ ahead' = [caller |-> ReadyAfter, disp |-> Behind({})]

\* A continuation of o runs.
CallerKeeps(o) ==
  /\ chain' = (chain /\ Busy')
  /\ ahead' = [caller |-> ahead.caller \ {o}, disp |-> Behind({o})]

\* An I/O event or a timer: the microtask queue was empty.
CallerGone == chain' = FALSE /\ ahead' = [caller |-> {}, disp |-> Behind({})]

\* --------------------------------------------------- session establishment
NewChild == [killed |-> FALSE, errored |-> FALSE, closed |-> FALSE]

\* The promise of _doEnsureSession of leader o settles with r: o goes on to
\* its finally, and the callers that were handed the promise see r.
EstSettled(ops, o, r) ==
  [p \in Ops |->
     IF p = o THEN [ops[o] EXCEPT !.pc = "ensure_finally", !.req = 0, !.res = NoRes,
                                  !.est = r]
     ELSE IF ops[p].pc = "follow" /\ ops[p].leader = o THEN [ops[p] EXCEPT !.est = r]
     ELSE ops[p]]

\* _ensureSession (343-348) entered by a new caller of the given kind, with
\* _doEnsureSession (356-357), _initialize (299-305) and _spawn (106-157) run
\* up to the first await.  found: does `which` find the command (113-125)?
StartOp(kind, found) ==
  /\ CanCall
  /\ left.ops > 0
  /\ kind = "chat" => left.turns > 0
  /\ left' = [left EXCEPT !.ops = @ - 1,
                          !.turns = IF kind = "chat" THEN @ - 1 ELSE @]
  /\ LET o == nops + 1
         new == [IdleOp EXCEPT !.kind = kind]
     IN
     /\ nops' = o
     /\ IF sessionLock # 0
          THEN \* lines 345-347: return the in-flight promise
               /\ op' = [op EXCEPT ![o] = [new EXCEPT !.pc = "follow",
                                                      !.leader = sessionLock,
                                                      !.est = op[sessionLock].est]]
               /\ UNCHANGED <<sessionLock, process, child, requestId, pending, timers>>
          ELSE /\ sessionLock' = o
               /\ IF initialized
                    THEN \* line 300
                         /\ op' = [op EXCEPT ![o] = [new EXCEPT !.pc = "do_ensure"]]
                         /\ UNCHANGED <<process, child, requestId, pending, timers>>
                    ELSE IF process = 0 /\ ~found
                    THEN \* _spawn throws (line 124): _initialize rejects
                         /\ op' = [op EXCEPT ![o] = [new EXCEPT !.pc = "initialize",
                                                       !.res = ErrRes("cannot find")]]
                         /\ UNCHANGED <<process, child, requestId, pending, timers>>
                    ELSE LET spawned == process = 0
                             proc == IF spawned THEN Len(child) + 1 ELSE process
                             ch == IF spawned THEN Append(child, NewChild) ELSE child
                         IN  /\ process' = proc
                             /\ child' = ch
                             /\ IF CanSend(proc, ch)
                                  THEN /\ requestId' = NextId
                                       /\ timers' = timers \cup {NextId}
                                       /\ pending' = Registered(pending, NextId,
                                                                "initialize", proc, 0)
                                       /\ op' = [op EXCEPT ![o] = [new EXCEPT
                                                   !.pc = "initialize", !.req = NextId]]
                                  ELSE /\ UNCHANGED <<requestId, pending, timers>>
                                       /\ op' = [op EXCEPT ![o] = [new EXCEPT
                                                   !.pc = "initialize",
                                                   !.res = ErrRes("not running")]]
  /\ UNCHANGED <<notifications, sessionId, initialized, models, modes, contextUsage,
                 compacting, commands, persisted, disp, twice, nnotif, nsid, perm, hist, wire, assembly, current>>
  /\ CallerRuns

\* _initialize after its await (line 306), or its failure reaching
\* _doEnsureSession (line 357), which rejects the establishment.
InitializeCont(o) ==
  /\ op[o].pc = "initialize" /\ op[o].res.st # "pending"
  /\ IF op[o].res.st = "ok"
       THEN /\ initialized' = TRUE
            /\ op' = [op EXCEPT ![o].pc = "do_ensure", ![o].req = 0, ![o].res = NoRes]
       ELSE /\ UNCHANGED initialized
            /\ op' = EstSettled(op, o, op[o].res)
  /\ UNCHANGED <<process, child, requestId, pending, timers, notifications, sessionId,
                 models, modes, contextUsage, compacting, commands, sessionLock,
                 persisted, disp, twice, left, nops, nnotif, nsid, perm, hist, wire, assembly, current>>
  /\ CallerKeeps(o)

\* One _sendRequest (241-273) by op o entering stage pc, from record rec.
SendRequest(o, rec, pc, method, sid) ==
  IF CanSend(process, child)
    THEN /\ requestId' = NextId
         /\ timers' = timers \cup {NextId}
         /\ pending' = Registered(pending, NextId, method, process, sid)
         /\ op' = [op EXCEPT ![o] = [rec EXCEPT !.pc = pc, !.req = NextId, !.res = NoRes]]
    ELSE /\ UNCHANGED <<requestId, pending, timers>>
         /\ op' = [op EXCEPT ![o] = [rec EXCEPT !.pc = pc, !.req = 0,
                                                !.res = ErrRes("not running")]]

\* _doEnsureSession, lines 358-384, after `await this._initialize()`.
DoEnsure(o) ==
  /\ op[o].pc = "do_ensure"
  /\ IF sessionId # 0
       THEN \* line 394
            /\ op' = EstSettled(op, o, OkRes(sessionId, 0, FALSE))
            /\ UNCHANGED <<requestId, pending, timers>>
       ELSE IF LoadSessionId # 0
       THEN SendRequest(o, [op[o] EXCEPT !.saved = LoadSessionId], "load",
                        "session/load", LoadSessionId)
       ELSE SendRequest(o, op[o], "new", "session/new", 0)
  /\ UNCHANGED <<process, child, notifications, sessionId, initialized, models, modes,
                 contextUsage, compacting, commands, sessionLock, persisted, disp,
                 twice, left, nops, nnotif, nsid, perm, hist, wire, assembly, current>>
  /\ CallerKeeps(o)

\* _cacheModels / _cacheModes, lines 397-422: a catalog is replaced only when
\* the result carries one.
Cached(old, res) == IF res.cat THEN TRUE ELSE old

\* Lines 400 and 412: the current identifiers of a catalog just cached are
\* the ones the agent reports.
CachedCurrent(old, res) == IF res.cat THEN [model |-> "agent", mode |-> "agent"] ELSE old

\* _doEnsureSession, lines 367-375: the session/load outcome.
LoadCont(o) ==
  /\ op[o].pc = "load" /\ op[o].res.st # "pending"
  /\ IF op[o].res.st = "ok"
       THEN LET sid == IF op[o].res.sid # 0 THEN op[o].res.sid ELSE op[o].saved IN
            /\ sessionId' = sid
            /\ models' = Cached(models, op[o].res)
            /\ modes' = Cached(modes, op[o].res)
            /\ current' = CachedCurrent(current, op[o].res)
            /\ op' = EstSettled(op, o, OkRes(sid, 0, FALSE))
            /\ UNCHANGED <<requestId, pending, timers, persisted>>
       ELSE /\ persisted' = ClearSessionId
            /\ SendRequest(o, op[o], "new", "session/new", 0)
            /\ UNCHANGED <<sessionId, models, modes, current>>
  /\ UNCHANGED <<process, child, notifications, initialized, contextUsage, compacting,
                 commands, sessionLock, disp, twice, left, nops, nnotif, nsid, perm, hist, wire, assembly>>
  /\ CallerKeeps(o)

\* _doEnsureSession, lines 385-394: the session/new outcome.
NewCont(o) ==
  /\ op[o].pc = "new" /\ op[o].res.st # "pending"
  /\ IF op[o].res.st = "ok"
       THEN /\ sessionId' = op[o].res.sid
            /\ persisted' = SavedRecord(op[o].res.sid)
            /\ models' = Cached(models, op[o].res)
            /\ modes' = Cached(modes, op[o].res)
            /\ current' = CachedCurrent(current, op[o].res)
            /\ op' = EstSettled(op, o, OkRes(op[o].res.sid, 0, FALSE))
       ELSE /\ op' = EstSettled(op, o, op[o].res)
            /\ UNCHANGED <<sessionId, persisted, models, modes, current>>
  /\ UNCHANGED <<process, child, requestId, pending, timers, notifications, initialized,
                 contextUsage, compacting, commands, sessionLock, disp, twice, left,
                 nops, nnotif, nsid, perm, hist, wire, assembly>>
  /\ CallerKeeps(o)

\* _ensureSession, lines 349-353: the first caller's await and its finally.
EnsureFinally(o) ==
  /\ op[o].pc = "ensure_finally"
  /\ sessionLock' = 0
  /\ op' = [op EXCEPT ![o].pc = "got_session"]
  /\ UNCHANGED <<process, child, requestId, pending, timers, notifications, sessionId,
                 initialized, models, modes, contextUsage, compacting, commands,
                 persisted, disp, twice, left, nops, nnotif, nsid, perm, hist, wire, assembly, current>>
  /\ CallerKeeps(o)

\* The last event the consumer of a turn was handed is a terminal one.
Ended(rec) ==
  rec.yielded # <<>> /\ Terminal(rec.yielded[Len(rec.yielded)])

\* A caller that has returned: only what later steps can still read is kept
\* (a prompt outcome whose callbacks have not run yet), and whether the turn
\* had reached its terminal event.
Finished(rec) ==
  IF ~rec.handled /\ (rec.preq # 0 \/ rec.pres.st # "pending")
    THEN [IdleOp EXCEPT !.kind = rec.kind, !.pc = "finished", !.preq = rec.preq,
                        !.pres = rec.pres, !.ended = Ended(rec)]
    ELSE [IdleOp EXCEPT !.kind = rec.kind, !.pc = "finished", !.ended = Ended(rec)]

\* A bare `await backend._ensureSession()` returns or throws (GET /ai/models,
\* part_007 lines 801-813).
EnsureReturn(o) ==
  /\ op[o].kind = "ensure" /\ HasSession(o)
  /\ op' = [op EXCEPT ![o] = Finished(op[o])]
  /\ UNCHANGED <<process, child, requestId, pending, timers, notifications, sessionId,
                 initialized, models, modes, contextUsage, compacting, commands,
                 sessionLock, persisted, disp, twice, left, nops, nnotif, nsid, perm, hist, wire, assembly, current>>
  /\ CallerResumes(o)

\* ------------------------------------------------------------- turn engine
\* Faulty variant: the item is put at the front of the queue.
EnqueueFront(rec, item) ==
  IF rec.resolveNext
    THEN [rec EXCEPT !.resolveNext = FALSE, !.item = item, !.pc = "woken"]
    ELSE [rec EXCEPT !.queue = <<item>> \o @]

\* chatStream's enqueue, lines 623-631: hand the item to the waiting consumer
\* (one-slot wakeup) or append it to the queue.
Enqueue(rec, item) ==
  IF rec.resolveNext
    THEN [rec EXCEPT !.resolveNext = FALSE, !.item = item, !.pc = "woken"]
    ELSE [rec EXCEPT !.queue = Append(@, item)]

\* One call of enqueue by the handler or the prompt callbacks; sent records
\* the calls.  The closure of a generator that has returned is no longer
\* observable: pushes into its queue are not tracked.
Push(rec, item) ==
  IF rec.pc = "finished" THEN rec
  ELSE Enqueue([rec EXCEPT !.sent = Append(@, item)], item)

\* Faulty variant: a turn that ends unsubscribes every turn.
WithoutAny(hs, o) == <<>>

\* this._notifications.filter(h => h !== handler), line 719.
RECURSIVE Without(_, _)
Without(hs, o) ==
  IF hs = <<>> THEN <<>>
  ELSE IF Head(hs) = o THEN Without(Tail(hs), o)
  ELSE <<Head(hs)>> \o Without(Tail(hs), o)

\* The session `await this._ensureSession()` gave caller o.
SessionOf(o) == op[o].est

\* chatStream, lines 564-716, after `await this._ensureSession()`: install the
\* handler, send session/prompt, enter the loop and wait; or, when the
\* establishment failed, the catch block's yield (line 721).
ChatPrompt(o) ==
  /\ op[o].kind = "chat" /\ HasSession(o)
  /\ UNCHANGED <<process, child, sessionId, initialized, models, modes, contextUsage,
                 compacting, commands, sessionLock, persisted, disp, twice, left, nops,
                 nnotif, nsid, perm, hist, wire, assembly, current>>
  /\ LET s == SessionOf(o)
         rec == [op[o] EXCEPT !.est = NoRes, !.leader = 0, !.saved = 0]
     IN
     IF s.st = "ok"
       THEN /\ notifications' = Append(notifications, o)
            /\ IF CanSend(process, child)
                 THEN /\ requestId' = NextId
                      /\ timers' = timers \cup {NextId}
                      /\ pending' = Registered(pending, NextId, "session/prompt",
                                               process, s.sid)
                      /\ op' = [op EXCEPT ![o] = [rec EXCEPT !.pc = "wait",
                                            !.resolveNext = TRUE, !.preq = NextId]]
                 ELSE /\ UNCHANGED <<requestId, pending, timers>>
                      /\ op' = [op EXCEPT ![o] = [rec EXCEPT !.pc = "wait",
                                            !.resolveNext = TRUE,
                                            !.pres = ErrRes("not running")]]
            /\ CallerKeeps(o)
       ELSE /\ op' = [op EXCEPT ![o] = [rec EXCEPT !.pc = "yield_catch",
                                !.item = Event("error", 0, s.msg),
                                !.sent = <<Event("error", 0, s.msg)>>,
                                !.yielded = <<Event("error", 0, s.msg)>>]]
            /\ UNCHANGED <<notifications, requestId, pending, timers>>
            /\ CallerResumes(o)

\* Faulty variant: a rejected prompt pushes nothing.
PromptEventsSilent(r) ==
  IF r.st = "ok"
    THEN (IF r.cu # 0 THEN <<Event("context_usage", r.cu, "")>> ELSE <<>>)
           \o <<Event("done", 0, "")>>
    ELSE <<>>

\* Faulty variant: done is pushed before the context usage.
PromptEventsDoneFirst(r) ==
  IF r.st = "ok"
    THEN <<Event("done", 0, "")>>
           \o (IF r.cu # 0 THEN <<Event("context_usage", r.cu, "")>> ELSE <<>>)
    ELSE <<Event("error", 0, r.msg)>>

\* The events the prompt promise's callbacks push, lines 690-703.
PromptEvents(r) ==
  IF r.st = "ok"
    THEN (IF r.cu # 0 THEN <<Event("context_usage", r.cu, "")>> ELSE <<>>)
           \o <<Event("done", 0, "")>>
    ELSE <<Event("error", 0, r.msg)>>

RECURSIVE PushAll(_, _)
PushAll(rec, items) ==
  IF items = <<>> THEN rec ELSE PushAll(Push(rec, Head(items)), Tail(items))

\* The .then / .catch callbacks of the prompt promise, lines 690-703.
PromptSettled(o) ==
  /\ op[o].pres.st # "pending" /\ ~op[o].handled
  /\ contextUsage' = IF op[o].pres.st = "ok" /\ op[o].pres.cu # 0
                       THEN op[o].pres.cu ELSE contextUsage
  /\ op' = [op EXCEPT ![o] =
              IF op[o].pc = "finished"
                THEN [op[o] EXCEPT !.preq = 0, !.pres = NoRes]
              ELSE PushAll([op[o] EXCEPT !.handled = TRUE, !.done = TRUE,
                                         !.preq = 0, !.pres = NoRes],
                           PromptEvents(op[o].pres))]
  /\ UNCHANGED <<process, child, requestId, pending, timers, notifications, sessionId,
                 initialized, models, modes, compacting, commands, sessionLock,
                 persisted, disp, twice, left, nops, nnotif, nsid, perm, hist, wire, assembly, current>>
  /\ CallerKeeps(o)

\* Lines 712-713: the awaited wakeup resumes the generator, which yields.
Woken(o) ==
  /\ op[o].pc = "woken"
  /\ op' = [op EXCEPT ![o].pc = "yield", ![o].yielded = Append(@, op[o].item)]
  /\ UNCHANGED <<process, child, requestId, pending, timers, notifications, sessionId,
                 initialized, models, modes, contextUsage, compacting, commands,
                 sessionLock, persisted, disp, twice, left, nops, nnotif, nsid, perm, hist, wire, assembly, current>>
  /\ CallerResumes(o)

\* The consumer calls next(): the generator resumes after its yield (lines
\* 706-719), or after the catch block's yield (line 721).
Pull(o) ==
  /\ CanCall
  /\ op[o].pc \in {"yield", "yield_catch"}
  /\ IF op[o].pc = "yield_catch"
       THEN /\ op' = [op EXCEPT ![o] = Finished(op[o])]
            /\ UNCHANGED notifications
       ELSE IF Terminal(op[o].item) \/ (op[o].done /\ op[o].queue = <<>>)
       THEN \* break, or the loop condition fails: remove the handler
            /\ notifications' = Without(notifications, o)
            /\ op' = [op EXCEPT ![o] = Finished(op[o])]
       ELSE IF op[o].queue # <<>>
       THEN /\ op' = [op EXCEPT ![o].item = Head(op[o].queue),
                                ![o].queue = Tail(op[o].queue),
                                ![o].yielded = Append(@, Head(op[o].queue))]
            /\ UNCHANGED notifications
       ELSE /\ op' = [op EXCEPT ![o].pc = "wait", ![o].resolveNext = TRUE]
            /\ UNCHANGED notifications
  /\ UNCHANGED <<process, child, requestId, pending, timers, sessionId, initialized,
                 models, modes, contextUsage, compacting, commands, sessionLock,
                 persisted, disp, twice, left, nops, nnotif, nsid, perm, hist, wire, assembly, current>>
  /\ CallerRuns

\* The consumer leaves its for-await (break / return) while the generator is
\* suspended at a yield: the generator completes there; nothing after the
\* yield runs.
Return(o) ==
  /\ CanCall
  /\ op[o].pc \in {"yield", "yield_catch"}
  /\ op' = [op EXCEPT ![o] = Finished(op[o])]
  /\ UNCHANGED <<process, child, requestId, pending, timers, notifications, sessionId,
                 initialized, models, modes, contextUsage, compacting, commands,
                 sessionLock, persisted, disp, twice, left, nops, nnotif, nsid, perm, hist, wire, assembly, current>>
  /\ CallerRuns

\* ---------------------------------------------------- cancel, resetSession
\* Faulty variant: the failure of the request reaches the caller.
CancelRethrows(r) == r.st = "err"

\* cancel(), lines 499-503: does the call throw?  The catch only logs.
CancelRaises(r) == FALSE

\* cancel(), lines 495-499, up to its await; without a session it returns
\* at once.
Cancel ==
  /\ CanCall
  /\ left.cancels > 0
  /\ left' = [left EXCEPT !.cancels = @ - 1]
  /\ LET o == nops + 1
         new == [IdleOp EXCEPT !.kind = "cancel"]
     IN
     /\ nops' = o
     /\ IF sessionId = 0
          THEN /\ op' = [op EXCEPT ![o] = Finished(new)]
               /\ UNCHANGED <<requestId, pending, timers>>
          ELSE SendRequest(o, new, "cancel", "session/cancel", sessionId)
  /\ UNCHANGED <<process, child, notifications, sessionId, initialized, models, modes,
                 contextUsage, compacting, commands, sessionLock, persisted, disp,
                 twice, nnotif, nsid, perm, hist, wire, assembly, current>>
  /\ CallerRuns

\* cancel(), lines 499-503: the request has its outcome; cancel returns.
CancelCont(o) ==
  /\ op[o].pc = "cancel" /\ op[o].res.st # "pending"
  /\ op' = [op EXCEPT ![o] = [Finished(op[o]) EXCEPT !.res = op[o].res,
                                                     !.raised = CancelRaises(op[o].res)]]
  /\ UNCHANGED <<process, child, requestId, pending, timers, notifications, sessionId,
                 initialized, models, modes, contextUsage, compacting, commands,
                 sessionLock, persisted, disp, twice, left, nops, nnotif, nsid, perm, hist, wire, assembly, current>>
  /\ CallerResumes(o)

\* resetSession(), lines 429-437.
ResetSession ==
  /\ CanCall
  /\ left.resets > 0
  /\ left' = [left EXCEPT !.resets = @ - 1]
  /\ IF sessionId # 0
       THEN /\ sessionId' = 0
            /\ models' = FALSE
            /\ modes' = FALSE
            /\ persisted' = ClearSessionId
            /\ current' = NoCurrent
       ELSE UNCHANGED <<sessionId, models, modes, persisted, current>>
  /\ UNCHANGED <<process, child, requestId, pending, timers, notifications, initialized,
                 contextUsage, compacting, commands, sessionLock, op, disp, twice,
                 nops, nnotif, nsid, perm, hist, wire, assembly>>
  /\ CallerRuns

\* ------------------------------------------------------------------ reader
\* What one line of the child's output can be: a response to a live request
\* of that child, or a notification.
Msg(t, id, ok, cu, cat, echo, method, kind) ==
  [t |-> t, id |-> id, ok |-> ok, cu |-> cu, cat |-> cat, echo |-> echo,
   method |-> method, kind |-> kind]

ResponsesTo(i) ==
  LET m == pending[i].method IN
  {Msg("resp", i, FALSE, 0, FALSE, FALSE, "", "")} \cup
  (IF m = "session/prompt"
     THEN {Msg("resp", i, TRUE, u, FALSE, FALSE, "", "") : u \in {0, 1}}
   ELSE IF m = "session/new"
     THEN {Msg("resp", i, TRUE, 0, g, FALSE, "", "") : g \in BOOLEAN}
   ELSE IF m = "session/load"
     THEN {Msg("resp", i, TRUE, 0, g, e, "", "") : g \in BOOLEAN, e \in BOOLEAN}
   ELSE {Msg("resp", i, TRUE, 0, FALSE, FALSE, "", "")})

UpdateKinds == {"agent_message_chunk", "tool_call", "tool_call_update"}

\* The notifications explored; a kiro.dev/metadata notification carries a
\* contextUsagePercentage (cu = 2) or does not (cu = 0).
Notifs ==
  {Msg("notif", 0, FALSE, 0, FALSE, FALSE, "session/update", k) : k \in UpdateKinds}
  \cup {Msg("notif", 0, FALSE, 0, FALSE, FALSE, "_kiro.dev/compaction/status",
            "in_progress")}
  \cup {Msg("notif", 0, FALSE, u, FALSE, FALSE, "kiro.dev/metadata", "") : u \in {0, 2}}

\* The kinds of session/update the turn handler has a branch for (lines
\* 636-668), and a notification of another kind.
KnownKinds == {"agent_message_chunk", "tool_call", "tool_call_update", "tool_result",
               "turn_end"}
Unknowns == {Msg("notif", 0, FALSE, 0, FALSE, FALSE, "session/update", "plan")}

\* The request that ended by its deadline.
LateIds == IF late.id # 0 THEN {late.id} ELSE {}

\* The responses that can arrive for them afterwards.
Lates ==
  {Msg("resp", i, ok, 0, FALSE, FALSE, "", "") : i \in LateIds, ok \in BOOLEAN}

\* The budget a line is counted against.
Class(m) ==
  IF m.t = "resp" THEN (IF m.id \in Live THEN "none" ELSE "lates")
  ELSE IF m.method = "session/update" /\ m.kind \notin KnownKinds THEN "unknowns"
  ELSE IF m.method # "kiro.dev/metadata" THEN "notifs"
  ELSE IF m.cu # 0 THEN "usages" ELSE "others"

Count(chunk, class) == Cardinality({i \in DOMAIN chunk : Class(chunk[i]) = class})

\* A notification read while nobody subscribes changes nothing: left out.
LinesOf(c) ==
  UNION {ResponsesTo(i) : i \in {j \in Live : pending[j].child = c}}
  \cup (IF notifications # <<>> THEN Notifs ELSE {})
  \cup (IF left.lates > 0 THEN Lates ELSE {})
  \cup (IF left.unknowns > 0 /\ notifications # <<>> THEN Unknowns ELSE {})

NotifCount(chunk) == Count(chunk, "notifs")

Chunks(c) ==
  {ch \in UNION {[1..k -> LinesOf(c)] : k \in 1..MaxLines} :
     /\ NotifCount(ch) <= left.notifs
     /\ Count(ch, "usages") <= left.usages
     /\ Count(ch, "others") <= left.others
     /\ Count(ch, "lates") <= left.lates
     /\ Count(ch, "unknowns") <= left.unknowns}

\* The state one read works on.
ReadState ==
  [pending |-> pending, timers |-> timers, op |-> op, disp |-> disp,
   compacting |-> compacting, twice |-> twice, nnotif |-> nnotif, nsid |-> nsid]

\* The result object of a response, by the request's method.
ResultOf(st, m) ==
  LET rq == st.pending[m.id] IN
  IF ~m.ok THEN ErrRes("agent")
  ELSE IF m.method # ""
    THEN \* a line without result: resolve(undefined), and the continuations of
         \* lines 366 and 382 throw on `result.sessionId`
         (IF rq.method \in {"session/new", "session/load"}
            THEN ErrRes("TypeError") ELSE OkRes(0, 0, FALSE))
  ELSE IF rq.method = "session/new" THEN OkRes(st.nsid + 1, 0, m.cat)
  ELSE IF rq.method = "session/load" THEN OkRes(IF m.echo THEN rq.sid ELSE 0, 0, m.cat)
  ELSE OkRes(0, m.cu, FALSE)

\* Faulty variant: a response completes the oldest pending request, whatever
\* identifier it carries.
OnResponseOldest(st, m) ==
  IF DOMAIN st.pending # {}
    THEN LET i == CHOOSE j \in DOMAIN st.pending : \A k \in DOMAIN st.pending : j <= k
             r == ResultOf(st, [m EXCEPT !.id = i])
         IN  [st EXCEPT !.pending = Deleted(@, {i}),
                        !.timers = @ \ {i},
                        !.op = [o \in Ops |-> OpSettled(st.op[o], {i}, r)],
                        !.disp = DispsSettled(@, {i}),
                        !.twice = @ \/ Resettled(st.op, {i})]
    ELSE st

\* _processBuffer, lines 170-180: a response to one of our requests; a line
\* with an id that is not pending and no method is ignored (183-192).
OnResponse(st, m) ==
  IF m.id \in DOMAIN st.pending
    THEN LET r == ResultOf(st, m) IN
         [st EXCEPT !.pending = Deleted(@, {m.id}),
                    !.timers = @ \ {m.id},
                    !.op = [o \in Ops |-> OpSettled(st.op[o], {m.id}, r)],
                    !.disp = DispsSettled(@, {m.id}),
                    !.twice = @ \/ Resettled(st.op, {m.id}),
                    !.nsid = IF m.ok /\ m.method = ""
                                  /\ st.pending[m.id].method = "session/new"
                               THEN @ + 1 ELSE @]
    ELSE st

\* handler, line 677: msg.params?.status || 'unknown' ("" is a notification
\* without the field).
StatusOf(kind) == IF kind = "" THEN "unknown" ELSE kind

\* Faulty variant: compacting until the agent reports completion.
CompactingUntilComplete(status) == status # "complete"

\* handler, line 679: status === 'in_progress'.
Compacting(status) == status = "in_progress"

\* Faulty variant: every session/update without a branch is taken for text.
EventOfAny(m, n) ==
  IF m.method = "session/update"
    THEN (CASE m.kind = "tool_call" -> Event("tool_call", n, "")
            [] m.kind = "tool_call_update" -> Event("tool_call_update", n, "")
            [] m.kind = "tool_result" -> Event("tool_result", n, "")
            [] OTHER -> Event("token", n, ""))
  ELSE IF m.method = "_kiro.dev/compaction/status"
    THEN Event("compaction", n, StatusOf(m.kind))
  ELSE NoEvent

\* The turn handler's translation, lines 633-682.
EventOf(m, n) ==
  IF m.method = "session/update"
    THEN (CASE m.kind = "agent_message_chunk" -> Event("token", n, "")
            [] m.kind = "tool_call" -> Event("tool_call", n, "")
            [] m.kind = "tool_call_update" -> Event("tool_call_update", n, "")
            [] m.kind = "tool_result" -> Event("tool_result", n, "")
            [] OTHER -> NoEvent)
  ELSE IF m.method = "_kiro.dev/compaction/status"
    THEN Event("compaction", n, StatusOf(m.kind))
  ELSE NoEvent

\* handler, lines 633-682, on the closure of one turn.
Handler(rec, m, n) ==
  IF EventOf(m, n) = NoEvent THEN rec ELSE Push(rec, EventOf(m, n))

\* Faulty variant: the first subscriber alone is called.
DispatchFirst(ops, hs, m, n) ==
  IF hs = <<>> THEN ops ELSE [ops EXCEPT ![Head(hs)] = Handler(@, m, n)]

\* _processBuffer, lines 188-192: every subscriber, in registration order.
RECURSIVE Dispatch(_, _, _, _)
Dispatch(ops, hs, m, n) ==
  IF hs = <<>> THEN ops
  ELSE Dispatch([ops EXCEPT ![Head(hs)] = Handler(@, m, n)], Tail(hs), m, n)

OnNotification(st, m) ==
  LET n == st.nnotif + 1 IN
  [st EXCEPT !.nnotif = n,
             !.op = Dispatch(@, notifications, m, n),
             !.compacting = IF m.method = "_kiro.dev/compaction/status"
                                 /\ notifications # <<>>
                              THEN Compacting(StatusOf(m.kind)) ELSE @]

\* _processBuffer, lines 163-196: the lines of one read, in order.
RECURSIVE ProcessBuffer(_, _)
ProcessBuffer(st, lines) ==
  IF lines = <<>> THEN st
  ELSE ProcessBuffer(IF Head(lines).t = "resp" THEN OnResponse(st, Head(lines))
                     ELSE OnNotification(st, Head(lines)),
                     Tail(lines))

\* stdout 'data' handler, lines 139-142, of a child whose pipe is open, for
\* the reads in chunks.
DataFrom(c, chunks) ==
  /\ ~Busy
  /\ ~child[c].closed /\ ~child[c].errored
  /\ \E chunk \in chunks :
       LET st == ProcessBuffer(ReadState, chunk) IN
       /\ pending' = st.pending
       /\ timers' = st.timers
       /\ op' = st.op
       /\ disp' = st.disp
       /\ compacting' = st.compacting
       /\ twice' = st.twice
       /\ nnotif' = st.nnotif
       /\ nsid' = st.nsid
       /\ left' = [left EXCEPT !.notifs = @ - NotifCount(chunk),
                               !.usages = @ - Count(chunk, "usages"),
                               !.others = @ - Count(chunk, "others"),
                               !.lates = @ - Count(chunk, "lates"),
                               !.unknowns = @ - Count(chunk, "unknowns")]
       /\ late' = [late EXCEPT !.read = @ \/ Count(chunk, "lates") > 0]
  /\ UNCHANGED <<process, child, requestId, notifications, sessionId, initialized,
                 models, modes, contextUsage, commands, sessionLock, persisted, nops,
                 perm, disposed, wire, assembly, current>>
  /\ CallerGone

\* The same for the lines explored in every run.
Data(c) == DataFrom(c, Chunks(c))

\* The compaction notifications of an agent: compaction under way, completed,
\* and a notification without a status.
Compactions ==
  {Msg("notif", 0, FALSE, 0, FALSE, FALSE, "_kiro.dev/compaction/status", k) :
     k \in {"in_progress", "complete", ""}}

\* A read of one of them while a turn is subscribed.
CompactionData(c) ==
  /\ left.notifs > 0 /\ notifications # <<>>
  /\ DataFrom(c, {<<m>> : m \in Compactions})

\* The 60-second timer of a request fires, lines 251-256.
Timeout(i) ==
  /\ ~Busy
  /\ i \in timers
  /\ timers' = timers \ {i}
  /\ IF i \in Live
       THEN /\ pending' = Deleted(pending, {i})
            /\ op' = [o \in Ops |-> OpSettled(op[o], {i}, ErrRes(TimedOut(pending[i].method)))]
            /\ disp' = DispsSettled(disp, {i})
            /\ twice' = (twice \/ Resettled(op, {i}))
       ELSE UNCHANGED <<pending, op, disp, twice>>
  /\ late' = IF i \in Live /\ left.lates > 0 THEN [id |-> i, read |-> FALSE] ELSE late
  /\ UNCHANGED <<process, child, requestId, notifications, sessionId, initialized,
                 models, modes, contextUsage, compacting, commands, sessionLock,
                 persisted, left, nops, nnotif, nsid, perm, disposed, wire, assembly, current>>
  /\ CallerGone

\* --------------------------------------------------------- child lifecycle
\* 'error' handler, lines 148-151.
ChildError(c) ==
  /\ ~Busy
  /\ ~child[c].closed /\ ~child[c].errored
  /\ child' = [child EXCEPT ![c].errored = TRUE]
  /\ Cleanup("process error")
  /\ disp' = DispsSettled(disp, Live)
  /\ UNCHANGED <<requestId, left, nops, nnotif, nsid, perm, hist, wire, assembly>>
  /\ CallerGone

\* 'close' handler, lines 153-156.
ChildClose(c) ==
  /\ ~Busy
  /\ ~child[c].closed
  /\ child' = [child EXCEPT ![c] = [killed |-> FALSE, errored |-> FALSE,
                                    closed |-> TRUE]]
  /\ Cleanup("process exited")
  /\ disp' = DispsSettled(disp, Live)
  /\ UNCHANGED <<requestId, left, nops, nnotif, nsid, perm, hist, wire, assembly>>
  /\ CallerGone

\* ------------------------------------------------------------------ dispose
\* The record a new dispose() call gets: the first one not in use.
FreeDisp == CHOOSE d \in Disps : /\ disp[d].pc = "idle"
                                 /\ \A e \in Disps : e < d => disp[e].pc # "idle"

\* Faulty variant: dispose() shuts down whether or not a child is held.
NoProcessNever == FALSE

\* dispose(), line 739: there is nothing to dispose of.
NoProcess == process = 0

\* dispose(), lines 739-745: nothing without a process; else send shutdown
\* and race it against a 2-second timer.
Dispose ==
  /\ CanCall
  /\ left.disposes > 0
  /\ left' = [left EXCEPT !.disposes = @ - 1]
  /\ IF NoProcess
       THEN \* line 739
            UNCHANGED <<requestId, pending, timers, disp>>
       ELSE IF CanSend(process, child)
       THEN /\ requestId' = NextId
            /\ timers' = timers \cup {NextId}
            /\ pending' = Registered(pending, NextId, "shutdown", process, 0)
            /\ disp' = [disp EXCEPT ![FreeDisp] =
                          [pc |-> "shutdown", req |-> NextId, settled |-> FALSE]]
       ELSE /\ UNCHANGED <<requestId, pending, timers>>
            /\ disp' = [disp EXCEPT ![FreeDisp] =
                          [pc |-> "shutdown", req |-> 0, settled |-> TRUE]]
  /\ UNCHANGED <<process, child, notifications, sessionId, initialized, models, modes,
                 contextUsage, compacting, commands, sessionLock, persisted, op, twice,
                 nops, nnotif, nsid, perm, hist, wire, assembly, current>>
  /\ CallerRuns

\* The 2-second timer of line 744 wins the race.
DisposeTimer(d) ==
  /\ ~Busy
  /\ disp[d].pc = "shutdown" /\ ~disp[d].settled
  /\ disp' = [disp EXCEPT ![d].settled = TRUE]
  /\ UNCHANGED <<process, child, requestId, pending, timers, notifications, sessionId,
                 initialized, models, modes, contextUsage, compacting, commands,
                 sessionLock, persisted, op, twice, left, nops, nnotif, nsid, perm, hist, wire, assembly, current>>
  /\ CallerGone

\* Faulty variant: dispose() cleans up without signalling the child.
SignalledNever(ch, proc) == ch

\* dispose(), lines 750-752: SIGTERM to the held child unless it has been
\* signalled before.
Signalled(ch, proc) ==
  IF proc # 0 /\ ~ch[proc].killed THEN [ch EXCEPT ![proc].killed = TRUE] ELSE ch

\* dispose(), lines 750-753: signal the held child, then clean up; dispose
\* returns to its caller.  The cleanup rejects the shutdown request of a
\* dispose() call that overlaps this one.
DisposeKill(d) ==
  /\ DispReady(d) /\ ahead.disp[d] = {}
  /\ child' = Signalled(child, process)
  /\ Cleanup("terminated")
  /\ disp' = [DispsSettled(disp, Live) EXCEPT ![d] = IdleDisp]
  /\ disposed' = TRUE
  /\ UNCHANGED <<requestId, left, nops, nnotif, nsid, perm, late, wire, assembly>>
  /\ CallerQueued

\* ------------------------------------------------------ inbound requests
\* The kinds an option of a permission request can have; "" is no kind.
Kinds == {"allow_once", "allow_always", "reject_once", "reject_always", ""}

\* String.prototype.startsWith on the kinds, for the prefixes the code uses.
StartsWith(kind, prefix) ==
  \/ prefix = "allow" /\ kind \in {"allow_once", "allow_always"}
  \/ prefix = "reject" /\ kind \in {"reject_once", "reject_always"}

\* The optionId of the i-th option of a request, when it has one.
IdOf(i) == CASE i = 1 -> "option-1" [] i = 2 -> "option-2" [] i = 3 -> "option-3"
             [] OTHER -> "option-n"

\* The option lists of the requests explored: up to MaxOptions options, each
\* of any kind, its optionId present ("" when it is missing).
OptionLists ==
  UNION {{[i \in 1..k |-> [kind |-> f[i][1],
                           optionId |-> IF f[i][2] THEN IdOf(i) ELSE ""]] :
            f \in [1..k -> Kinds \X BOOLEAN]} : k \in 0..MaxOptions}

\* Array.prototype.find gave nothing.
NoOption == [kind |-> "", optionId |-> ""]

\* options.find(o => o.kind === kind), lines 221 and 228.
RECURSIVE FindKind(_, _)
FindKind(options, kind) ==
  IF options = <<>> THEN NoOption
  ELSE IF Head(options).kind = kind THEN Head(options)
  ELSE FindKind(Tail(options), kind)

\* options.find(o => o.kind?.startsWith(prefix)), lines 222 and 229.
RECURSIVE FindPrefix(_, _)
FindPrefix(options, prefix) ==
  IF options = <<>> THEN NoOption
  ELSE IF StartsWith(Head(options).kind, prefix) THEN Head(options)
  ELSE FindPrefix(Tail(options), prefix)

\* Faulty variant: the flag is not consulted.
SideAllow(flag) == "allow"

\* Lines 219-232: the side the reply is chosen from.
Side(flag) == IF flag THEN "allow" ELSE "reject"

\* The literal of lines 223 and 230.
Once(side) == IF side = "allow" THEN "allow_once" ELSE "reject_once"

\* Lines 219-231: the optionId of the reply.
SelectedOption(options, flag) ==
  LET side == Side(flag)
      first == FindKind(options, Once(side))
      found == IF first # NoOption THEN first ELSE FindPrefix(options, side)
  IN  IF found.optionId # "" THEN found.optionId ELSE Once(side)

\* Faulty variant: the frame is written whether or not a child is held.
SendResponseAlways(id, options, selected, optionId) ==
  [NoReply EXCEPT !.asked = id, !.options = options, !.child = Larger(process, 1),
                  !.id = id, !.selected = selected, !.optionId = optionId]

\* _sendResponse, lines 199-207: the frame {id, result} is written to the
\* held child, or nothing is.
SendResponse(id, options, selected, optionId) ==
  IF CanSend(process, child)
    THEN [NoReply EXCEPT !.asked = id, !.options = options, !.child = process,
                         !.id = id, !.selected = selected, !.optionId = optionId]
    ELSE [NoReply EXCEPT !.asked = id, !.options = options]

\* The ids the agent gives its requests.
AgentIds == {1, 2}

\* _processBuffer, lines 183-185, and _handleIncomingRequest, lines 209-239:
\* a line of child c with a method and an id that is not pending.
IncomingRequest(c, id, method, options) ==
  /\ ~Busy
  /\ ~child[c].closed /\ ~child[c].errored
  /\ id \notin Live
  /\ reply' = [(IF method = "session/request_permission"
                   THEN SendResponse(id, options, TRUE,
                                     SelectedOption(options, editModeEnabled))
                   ELSE SendResponse(id, options, FALSE, ""))
                 EXCEPT !.method = method]
  /\ UNCHANGED <<process, child, requestId, pending, timers, notifications, sessionId,
                 initialized, models, modes, contextUsage, compacting, commands,
                 sessionLock, persisted, op, disp, chain, ahead, twice, left, nops,
                 nnotif, nsid, editModeEnabled, hist, wire, assembly, current>>

\* _processBuffer, lines 170-186, on a line of child c that carries a method
\* and an id that is pending: the entry is completed (170-180), and the test
\* of line 183 is made after the entry was deleted.
CollidingRequest(c, i, method, options) ==
  /\ ~Busy
  /\ ~child[c].closed /\ ~child[c].errored
  /\ i \in Live /\ pending[i].child = c
  /\ LET st == OnResponse(ReadState, Msg("resp", i, TRUE, 0, FALSE, FALSE, method, ""))
     IN  /\ pending' = st.pending
         /\ timers' = st.timers
         /\ op' = st.op
         /\ disp' = st.disp
         /\ twice' = st.twice
         /\ reply' = IF i \in DOMAIN st.pending THEN reply
                      ELSE [(IF method = "session/request_permission"
                               THEN SendResponse(i, options, TRUE,
                                                 SelectedOption(options, editModeEnabled))
                               ELSE SendResponse(i, options, FALSE, ""))
                             EXCEPT !.method = method]
  /\ UNCHANGED <<process, child, requestId, notifications, sessionId, initialized,
                 models, modes, contextUsage, compacting, commands, sessionLock,
                 persisted, left, nops, nnotif, nsid, editModeEnabled, hist, wire,
                 assembly, current>>
  /\ CallerGone

\* POST /edit-mode (part_007, lines 918-927) sets the flag.
SetEditMode(enabled) ==
  /\ ~Busy
  /\ editModeEnabled' = enabled
  /\ UNCHANGED <<process, child, requestId, pending, timers, notifications, sessionId,
                 initialized, models, modes, contextUsage, compacting, commands,
                 sessionLock, persisted, op, disp, chain, ahead, twice, left, nops,
                 nnotif, nsid, reply, hist, wire, assembly, current>>

\* ------------------------------------------------------------ specification
Next ==
  \/ \E kind \in {"chat", "ensure"}, found \in BOOLEAN : StartOp(kind, found)
  \/ \E o \in Ops : InitializeCont(o)
  \/ \E o \in Ops : DoEnsure(o)
  \/ \E o \in Ops : LoadCont(o)
  \/ \E o \in Ops : NewCont(o)
  \/ \E o \in Ops : EnsureFinally(o)
  \/ \E o \in Ops : EnsureReturn(o)
  \/ \E o \in Ops : ChatPrompt(o)
  \/ \E o \in Ops : PromptSettled(o)
  \/ \E o \in Ops : Woken(o)
  \/ \E o \in Ops : Pull(o)
  \/ \E o \in Ops : Return(o)
  \/ Cancel
  \/ \E o \in Ops : CancelCont(o)
  \/ ResetSession
  \/ \E c \in DOMAIN child : Data(c)
  \/ \E i \in timers : Timeout(i)
  \/ \E c \in DOMAIN child : ChildError(c)
  \/ \E c \in DOMAIN child : ChildClose(c)
  \/ Dispose
  \/ \E d \in Disps : DisposeTimer(d)
  \/ \E d \in Disps : DisposeKill(d)

Spec == Init /\ [][Next]_vars

\* Every request id a run can use: three per establishment, one per prompt,
\* one per dispose.
Ids == 1..(3 * Larger(MaxOps, MaxTurns) + MaxTurns + MaxCancels
          + Larger(MaxDisposes, MaxOverlap))

\* The continuations of caller o: the event loop runs a queued microtask.
Microtask(o) ==
  \/ InitializeCont(o) \/ DoEnsure(o) \/ LoadCont(o) \/ NewCont(o)
  \/ EnsureFinally(o) \/ EnsureReturn(o) \/ ChatPrompt(o) \/ PromptSettled(o)
  \/ Woken(o) \/ CancelCont(o)

\* The event loop runs queued continuations and fires armed timers; the
\* consumer of a turn keeps calling next().
Fairness ==
  /\ \A o \in Ops : WF_vars(Microtask(o)) /\ WF_vars(Pull(o))
  /\ \A i \in Ids : WF_vars(Timeout(i))
  /\ \A d \in Disps : WF_vars(DisposeTimer(d)) /\ WF_vars(DisposeKill(d))

\* Runs with turns, under the event loop's scheduling.
TurnInit == Init /\ left.turns > 0

TurnSpec == TurnInit /\ [][Next]_vars /\ Fairness

\* The callers of a run with turns.
Turns == 1..MaxTurns

\* The permission handler reads the handle and the flag only.  It is explored
\* from two states of a run: the first caller's initialize request has timed
\* out and the caller has returned (the client holds child 1), and that
\* client after a dispose() whose shutdown request got no answer (child 1 is
\* signalled, not yet exited, and no longer held).
ClientAfter(disposes) ==
  /\ process = IF disposes = 0 THEN 1 ELSE 0
  /\ child = <<[NewChild EXCEPT !.killed = disposes > 0]>>
  /\ requestId = 1 + disposes
  /\ pending = <<>>
  /\ notifications = <<>>
  /\ sessionId = 0
  /\ initialized = FALSE
  /\ models = FALSE
  /\ modes = FALSE
  /\ contextUsage = 0
  /\ compacting = FALSE
  /\ commands = FALSE
  /\ sessionLock = 0
  /\ persisted = NoFile
  /\ op = [o \in Ops |-> IF o = 1 THEN Finished([IdleOp EXCEPT !.kind = "ensure"])
                         ELSE IdleOp]
  /\ disp = [d \in Disps |-> IdleDisp]
  /\ chain = FALSE
  /\ ahead = [caller |-> {}, disp |-> [d \in Disps |-> {}]]
  /\ timers = {}
  /\ twice = FALSE
  /\ left = [ops |-> MaxOps - 1, turns |-> 0, notifs |-> 0,
             disposes |-> MaxDisposes - disposes, cancels |-> 0, resets |-> 0, usages |-> 0, others |-> 0, lates |-> 0, unknowns |-> 0]
  /\ nops = 1
  /\ nnotif = 0
  /\ nsid = OldSid
  /\ disposed = (disposes > 0)
  /\ late = NoLate
  /\ current = NoCurrent

PermInit ==
  /\ \E disposes \in {0, 1} : ClientAfter(disposes)
  /\ editModeEnabled = FALSE
  /\ reply = NoReply
  /\ NoOutput
  /\ NoPrompt

Methods == {"session/request_permission", "fs/read_text_file"}

\* The agent of a run offers one option list, in every request it makes.
Offered == IF reply = NoReply THEN OptionLists ELSE {reply.options}

PermNext ==
  \/ \E enabled \in BOOLEAN : SetEditMode(enabled)
  \/ \E c \in DOMAIN child, id \in AgentIds, method \in Methods, options \in Offered :
       IncomingRequest(c, id, method, options)

\* The permission handler on its own.
PermSpec == PermInit /\ [][PermNext]_vars

\* ------------------------------------------------------- session utilities
SetKinds == {"set_model", "set_mode"}

SetMethod(kind) == IF kind = "set_model" THEN "session/set_model" ELSE "session/set_mode"

\* What `await this._ensureSession()` leaves of the caller's record.
Ensured(rec) == [rec EXCEPT !.est = NoRes, !.leader = 0, !.saved = 0]

\* A caller returns (raised: by throwing), its last outcome kept for reading.
Returned(rec, raised) ==
  [Finished(rec) EXCEPT !.req = rec.req, !.res = rec.res, !.raised = raised]

\* setMode / setModel, lines 457-459 and 483-485, after
\* `await this._ensureSession()`: send the request, or throw what the
\* establishment threw.
SetSend(o) ==
  /\ op[o].kind \in SetKinds /\ HasSession(o)
  /\ UNCHANGED <<process, child, notifications, sessionId, initialized, models, modes,
                 contextUsage, compacting, commands, sessionLock, persisted, disp,
                 twice, left, nops, nnotif, nsid, perm, hist, wire, assembly, current>>
  /\ LET s == SessionOf(o) IN
     IF s.st = "ok"
       THEN /\ SendRequest(o, Ensured(op[o]), "set", SetMethod(op[o].kind), s.sid)
            /\ CallerKeeps(o)
       ELSE /\ op' = [op EXCEPT ![o] = Returned([Ensured(op[o]) EXCEPT !.res = s], TRUE)]
            /\ UNCHANGED <<requestId, pending, timers>>
            /\ CallerResumes(o)

\* Faulty variant: the identifier is cached whatever the outcome.
SetAppliesAlways(r) == TRUE

\* Lines 459-460 and 485-486: the assignment follows the await, so it is
\* reached only when the request was fulfilled.
SetApplies(r) == r.st = "ok"

\* Lines 460-462 and 486-488: the identifier asked for becomes the current
\* one of the catalog, when a catalog is cached.
Assigned(cur, kind) ==
  IF kind = "set_model"
    THEN (IF models THEN [cur EXCEPT !.model = "chosen"] ELSE cur)
    ELSE (IF modes THEN [cur EXCEPT !.mode = "chosen"] ELSE cur)

\* setMode / setModel after `await this._sendRequest(...)`.
SetCont(o) ==
  /\ op[o].pc = "set" /\ op[o].res.st # "pending"
  /\ current' = IF SetApplies(op[o].res) THEN Assigned(current, op[o].kind) ELSE current
  /\ op' = [op EXCEPT ![o] = Returned(op[o], op[o].res.st = "err")]
  /\ UNCHANGED <<process, child, requestId, pending, timers, notifications, sessionId,
                 initialized, models, modes, contextUsage, compacting, commands,
                 sessionLock, persisted, disp, twice, left, nops, nnotif, nsid, perm,
                 hist, wire, assembly>>
  /\ CallerResumes(o)

\* getCommands, lines 509-511: the cached catalog is returned at once; else
\* the caller enters _ensureSession.
GetCommands(found) ==
  IF commands
    THEN /\ CanCall
         /\ left.ops > 0
         /\ left' = [left EXCEPT !.ops = @ - 1]
         /\ nops' = nops + 1
         /\ op' = [op EXCEPT ![nops + 1] =
                     Returned([IdleOp EXCEPT !.kind = "commands",
                                             !.res = OkRes(0, 0, TRUE)], FALSE)]
         /\ UNCHANGED <<process, child, requestId, pending, timers, notifications,
                        sessionId, initialized, models, modes, contextUsage, compacting,
                        commands, sessionLock, persisted, disp, twice, nnotif, nsid,
                        perm, hist, wire, assembly, current>>
         /\ CallerRuns
    ELSE StartOp("commands", found)

\* getCommands, lines 511-513, after `await this._ensureSession()`.
CommandsSend(o) ==
  /\ op[o].kind = "commands" /\ HasSession(o)
  /\ UNCHANGED <<process, child, notifications, sessionId, initialized, models, modes,
                 contextUsage, compacting, commands, sessionLock, persisted, disp,
                 twice, left, nops, nnotif, nsid, perm, hist, wire, assembly, current>>
  /\ LET s == SessionOf(o) IN
     IF s.st = "ok"
       THEN /\ SendRequest(o, Ensured(op[o]), "fetch", "_kiro.dev/commands/available",
                           s.sid)
            /\ CallerKeeps(o)
       ELSE /\ op' = [op EXCEPT ![o] = Returned([Ensured(op[o]) EXCEPT !.res = s], TRUE)]
            /\ UNCHANGED <<requestId, pending, timers>>
            /\ CallerResumes(o)

\* getCommands, lines 520-526: does the call throw?  The catch returns [].
FetchRaises(r) == FALSE

\* getCommands, lines 514-526: the fetch has its outcome.  The catalog is
\* cached when the request was fulfilled; the caller is handed the catalog,
\* or an empty one.
CommandsCont(o) ==
  /\ op[o].pc = "fetch" /\ op[o].res.st # "pending"
  /\ commands' = IF op[o].res.st = "ok" THEN TRUE ELSE commands
  /\ op' = [op EXCEPT ![o] = Returned(op[o], FetchRaises(op[o].res))]
  /\ UNCHANGED <<process, child, requestId, pending, timers, notifications, sessionId,
                 initialized, models, modes, contextUsage, compacting, sessionLock,
                 persisted, disp, twice, left, nops, nnotif, nsid, perm, hist, wire,
                 assembly, current>>
  /\ CallerResumes(o)

\* testConnection (725-727) calls _initialize (299-305) outside _ensureSession:
\* nothing to do when initialized; else _spawn (106-157), which keeps a child
\* that is held, and an initialize request.
TestConnection(found) ==
  /\ CanCall
  /\ left.ops > 0
  /\ left' = [left EXCEPT !.ops = @ - 1]
  /\ LET o == nops + 1
         new == [IdleOp EXCEPT !.kind = "test", !.pc = "test"]
     IN
     /\ nops' = o
     /\ IF initialized
          THEN /\ op' = [op EXCEPT ![o] = [new EXCEPT !.res = OkRes(0, 0, FALSE)]]
               /\ UNCHANGED <<process, child, requestId, pending, timers>>
          ELSE IF process = 0 /\ ~found
          THEN /\ op' = [op EXCEPT ![o] = [new EXCEPT !.res = ErrRes("cannot find")]]
               /\ UNCHANGED <<process, child, requestId, pending, timers>>
          ELSE LET spawned == process = 0
                   proc == IF spawned THEN Len(child) + 1 ELSE process
                   ch == IF spawned THEN Append(child, NewChild) ELSE child
               IN  /\ process' = proc
                   /\ child' = ch
                   /\ IF CanSend(proc, ch)
                        THEN /\ requestId' = NextId
                             /\ timers' = timers \cup {NextId}
                             /\ pending' = Registered(pending, NextId, "initialize",
                                                      proc, 0)
                             /\ op' = [op EXCEPT ![o] = [new EXCEPT !.req = NextId]]
                        ELSE /\ UNCHANGED <<requestId, pending, timers>>
                             /\ op' = [op EXCEPT ![o] =
                                         [new EXCEPT !.res = ErrRes("not running")]]
  /\ UNCHANGED <<notifications, sessionId, initialized, models, modes, contextUsage,
                 compacting, commands, sessionLock, persisted, disp, twice, nnotif,
                 nsid, perm, hist, wire, assembly, current>>
  /\ CallerRuns

\* _initialize, line 306, after its await, and testConnection, lines 728-731:
\* the outcome is returned, never thrown.
TestCont(o) ==
  /\ op[o].pc = "test" /\ op[o].res.st # "pending"
  /\ initialized' = IF op[o].res.st = "ok" THEN TRUE ELSE initialized
  /\ op' = [op EXCEPT ![o] = Returned(op[o], FALSE)]
  /\ UNCHANGED <<process, child, requestId, pending, timers, notifications, sessionId,
                 models, modes, contextUsage, compacting, commands, sessionLock,
                 persisted, disp, twice, left, nops, nnotif, nsid, perm, hist, wire,
                 assembly, current>>
  /\ CallerResumes(o)

\* Two calls of the session utilities, with a resetSession.
ToolInit == Init /\ left.resets > 0 /\ left.turns = 0

ToolNext ==
  \/ \E kind \in SetKinds, found \in BOOLEAN : StartOp(kind, found)
  \/ \E found \in BOOLEAN : GetCommands(found)
  \/ \E found \in BOOLEAN : TestConnection(found)
  \/ \E o \in Ops : InitializeCont(o)
  \/ \E o \in Ops : DoEnsure(o)
  \/ \E o \in Ops : LoadCont(o)
  \/ \E o \in Ops : NewCont(o)
  \/ \E o \in Ops : EnsureFinally(o)
  \/ \E o \in Ops : SetSend(o)
  \/ \E o \in Ops : SetCont(o)
  \/ \E o \in Ops : CommandsSend(o)
  \/ \E o \in Ops : CommandsCont(o)
  \/ \E o \in Ops : TestCont(o)
  \/ ResetSession
  \/ \E c \in DOMAIN child : Data(c)
  \/ \E i \in timers : Timeout(i)
  \/ \E c \in DOMAIN child : ChildError(c)
  \/ \E c \in DOMAIN child : ChildClose(c)

\* The session utilities on their own.
ToolSpec == ToolInit /\ [][ToolNext]_vars

\* One turn in which the agent also sends a session/update of unknown kind.
UpdateInit == InitWith(StartFiles, {UnknownProfile})

UpdateNext ==
  \/ \E found \in BOOLEAN : StartOp("chat", found)
  \/ \E o \in Ops : InitializeCont(o)
  \/ \E o \in Ops : DoEnsure(o)
  \/ \E o \in Ops : LoadCont(o)
  \/ \E o \in Ops : NewCont(o)
  \/ \E o \in Ops : EnsureFinally(o)
  \/ \E o \in Ops : ChatPrompt(o)
  \/ \E o \in Ops : PromptSettled(o)
  \/ \E o \in Ops : Woken(o)
  \/ \E o \in Ops : Pull(o)
  \/ \E o \in Ops : Return(o)
  \/ \E c \in DOMAIN child : Data(c)
  \/ \E i \in timers : Timeout(i)
  \/ \E c \in DOMAIN child : ChildError(c)
  \/ \E c \in DOMAIN child : ChildClose(c)

UpdateSpec == UpdateInit /\ [][UpdateNext]_vars

\* Two turns on the same client at once.
SharedProfile == [ops |-> MaxShared, turns |-> MaxShared, notifs |-> MaxNotifs,
                  disposes |-> 0, cancels |-> 0, resets |-> 0, usages |-> 0, others |-> 0,
                  lates |-> 0, unknowns |-> 0]

SharedInit == InitWith({NoFile}, {SharedProfile})

SharedNext ==
  \/ StartOp("chat", TRUE)
  \/ \E o \in Ops : InitializeCont(o)
  \/ \E o \in Ops : DoEnsure(o)
  \/ \E o \in Ops : NewCont(o)
  \/ \E o \in Ops : EnsureFinally(o)
  \/ \E o \in Ops : ChatPrompt(o)
  \/ \E o \in Ops : PromptSettled(o)
  \/ \E o \in Ops : Woken(o)
  \/ \E o \in Ops : Pull(o)
  \/ \E c \in DOMAIN child : Data(c)

\* Concurrent turns and the notifications they share.
SharedSpec == SharedInit /\ [][SharedNext]_vars

\* _processBuffer, lines 187-192, on a kiro.dev/metadata line that carries a
\* contextUsagePercentage, read from the held child while no turn is
\* running: the subscriber list is empty (_initialize, lines 299-307, adds
\* nothing to it), so nothing is called.
MetadataOutside(c) ==
  /\ ~Busy
  /\ ~child[c].closed /\ ~child[c].errored
  /\ c = process /\ initialized /\ notifications = <<>>
  /\ left.usages > 0
  /\ left' = [left EXCEPT !.usages = @ - 1]
  /\ nnotif' = nnotif + 1
  /\ UNCHANGED <<process, child, requestId, pending, timers, notifications, sessionId,
                 initialized, models, modes, contextUsage, compacting, commands,
                 sessionLock, persisted, op, disp, twice, nops, nsid, perm, hist, wire,
                 assembly, current>>
  /\ CallerGone

\* One caller, and an agent that reports its context usage unasked.
MetadataProfile == [ops |-> 1, turns |-> 0, notifs |-> 0, disposes |-> 0, cancels |-> 0,
                    resets |-> 0, usages |-> 1, others |-> 0, lates |-> 0,
                    unknowns |-> 0]

MetadataInit == InitWith(StartFiles, {MetadataProfile})

MetadataNext ==
  \/ \E found \in BOOLEAN : StartOp("ensure", found)
  \/ \E o \in Ops : InitializeCont(o)
  \/ \E o \in Ops : DoEnsure(o)
  \/ \E o \in Ops : LoadCont(o)
  \/ \E o \in Ops : NewCont(o)
  \/ \E o \in Ops : EnsureFinally(o)
  \/ \E o \in Ops : EnsureReturn(o)
  \/ \E c \in DOMAIN child : Data(c)
  \/ \E i \in timers : Timeout(i)
  \/ \E c \in DOMAIN child : ChildClose(c)
  \/ \E c \in DOMAIN child : MetadataOutside(c)

\* The client between turns.
MetadataSpec == MetadataInit /\ [][MetadataNext]_vars

\* One turn with an agent that compacts its context.
CompactionProfile == [ops |-> 1, turns |-> 1, notifs |-> MaxNotifs, disposes |-> 0,
                      cancels |-> 0, resets |-> 0, usages |-> 0, others |-> 0,
                      lates |-> 0, unknowns |-> 0]

CompactionInit == InitWith({NoFile}, {CompactionProfile})

CompactionNext ==
  \/ StartOp("chat", TRUE)
  \/ \E o \in Ops : InitializeCont(o)
  \/ \E o \in Ops : DoEnsure(o)
  \/ \E o \in Ops : NewCont(o)
  \/ \E o \in Ops : EnsureFinally(o)
  \/ \E o \in Ops : ChatPrompt(o)
  \/ \E o \in Ops : PromptSettled(o)
  \/ \E o \in Ops : Woken(o)
  \/ \E o \in Ops : Pull(o)
  \/ \E c \in DOMAIN child : Data(c)
  \/ \E c \in DOMAIN child : CompactionData(c)
  \/ \E c \in DOMAIN child : ChildClose(c)

\* A turn during which the agent reports compaction.
CompactionSpec == CompactionInit /\ [][CompactionNext]_vars

\* One turn whose agent streams notifications and answers late or never.
DeadlineProfile == [ops |-> 1, turns |-> 1, notifs |-> MaxNotifs, disposes |-> 0,
                    cancels |-> 0, resets |-> 0, usages |-> 0, others |-> 0,
                    lates |-> MaxLates, unknowns |-> 0]

DeadlineInit == InitWith({NoFile}, {DeadlineProfile})

DeadlineNext ==
  \/ StartOp("chat", TRUE)
  \/ \E o \in Ops : InitializeCont(o)
  \/ \E o \in Ops : DoEnsure(o)
  \/ \E o \in Ops : NewCont(o)
  \/ \E o \in Ops : EnsureFinally(o)
  \/ \E o \in Ops : ChatPrompt(o)
  \/ \E o \in Ops : PromptSettled(o)
  \/ \E o \in Ops : Woken(o)
  \/ \E o \in Ops : Pull(o)
  \/ \E c \in DOMAIN child : Data(c)
  \/ \E i \in timers : Timeout(i)

\* A turn against its deadline, under the event loop's scheduling and with
\* a consumer that keeps pulling.
DeadlineSpec == DeadlineInit /\ [][DeadlineNext]_vars /\ Fairness

\* One call, with agents whose requests reuse the identifiers of ours.
InboundProfile == [ops |-> 1, turns |-> 0, notifs |-> 0, disposes |-> 0, cancels |-> 0,
                   resets |-> MaxResets, usages |-> 0, others |-> 0, lates |-> 0,
                   unknowns |-> 0]

InboundInit == InitWith(StartFiles, {InboundProfile})

InboundNext ==
  \/ ToolNext
  \/ \E c \in DOMAIN child, i \in Live, method \in Methods :
       CollidingRequest(c, i, method, <<>>)
  \/ \E c \in DOMAIN child, id \in AgentIds, method \in Methods :
       IncomingRequest(c, id, method, <<>>)

InboundSpec == InboundInit /\ [][InboundNext]_vars

\* Two callers and a dispose(), with an agent that makes requests.
RequestProfile == [ops |-> 2, turns |-> 0, notifs |-> 0, disposes |-> MaxDisposes,
                   cancels |-> 0, resets |-> 0, usages |-> 0, others |-> 0, lates |-> 0,
                   unknowns |-> 0]

RequestInit == InitWith(StartFiles, {RequestProfile})

RequestNext ==
  \/ \E found \in BOOLEAN : StartOp("ensure", found)
  \/ \E o \in Ops : InitializeCont(o)
  \/ \E o \in Ops : DoEnsure(o)
  \/ \E o \in Ops : LoadCont(o)
  \/ \E o \in Ops : NewCont(o)
  \/ \E o \in Ops : EnsureFinally(o)
  \/ \E o \in Ops : EnsureReturn(o)
  \/ \E c \in DOMAIN child : Data(c)
  \/ \E i \in timers : Timeout(i)
  \/ \E c \in DOMAIN child : ChildClose(c)
  \/ Dispose
  \/ \E d \in Disps : DisposeTimer(d)
  \/ \E d \in Disps : DisposeKill(d)
  \/ \E c \in DOMAIN child, id \in AgentIds, method \in Methods :
       IncomingRequest(c, id, method, <<>>)

\* The inbound requests of an agent across dispose() and re-spawn.
RequestSpec == RequestInit /\ [][RequestNext]_vars

\* The same calls, on every session file tried.
ResumeInit == InitWith(ResumeFiles, Profiles) /\ left.resets > 0 /\ left.turns = 0

ResumeSpec == ResumeInit /\ [][ToolNext]_vars

\* ------------------------------------------------------------------ framing
\* The bytes of a child's output: a byte of JSON text, a space, the newline,
\* the lead and the continuation byte of a two-byte UTF-8 character, and a
\* byte that makes its line malformed JSON.
Bytes == {"j", "sp", "nl", "lead", "cont", "x"}

\* The child writes valid UTF-8.
WellFormed(s) ==
  \A i \in DOMAIN s :
     /\ s[i] = "lead" => i < Len(s) /\ s[i + 1] = "cont"
     /\ s[i] = "cont" => i > 1 /\ s[i - 1] = "lead"

Streams == {s \in UNION {[1..n -> Bytes] : n \in 0..MaxBytes} : WellFormed(s)}

\* chunk.toString(), line 140: the UTF-8 decoding of one chunk on its own.  A
\* lead byte with its continuation byte is the character; a lead byte at the
\* end of the chunk, or a continuation byte at its start, decodes to U+FFFD.
RECURSIVE ToString(_)
ToString(b) ==
  IF b = <<>> THEN <<>>
  ELSE IF Head(b) = "lead"
    THEN IF Len(b) >= 2 /\ b[2] = "cont"
           THEN <<"c3a9">> \o ToString(Tail(Tail(b)))
           ELSE <<"fffd">> \o ToString(Tail(b))
  ELSE IF Head(b) = "cont" THEN <<"fffd">> \o ToString(Tail(b))
  ELSE <<Head(b)>> \o ToString(Tail(b))

\* this._buffer.split('\n') and lines.pop(), lines 160-161: the complete
\* lines, and the incomplete one that is kept.
RECURSIVE Split(_, _, _)
Split(chars, cur, acc) ==
  IF chars = <<>> THEN [lines |-> acc, kept |-> cur]
  ELSE IF Head(chars) = "nl" THEN Split(Tail(chars), <<>>, Append(acc, cur))
  ELSE Split(Tail(chars), Append(cur, Head(chars)), acc)

\* line.trim(), line 164.
RECURSIVE Trim(_)
Trim(line) ==
  IF line = <<>> THEN <<>>
  ELSE IF Head(line) = "sp" THEN Trim(Tail(line))
  ELSE IF line[Len(line)] = "sp" THEN Trim(SubSeq(line, 1, Len(line) - 1))
  ELSE line

\* JSON.parse throws, lines 168 and 193.
Malformed(t) == \E i \in DOMAIN t : t[i] = "x"

\* Faulty variant: a malformed line ends the loop over the lines of a read.
RECURSIVE MessagesUntilBad(_)
MessagesUntilBad(lines) ==
  IF lines = <<>> \/ Malformed(Trim(Head(lines))) THEN <<>>
  ELSE (IF Trim(Head(lines)) = <<>> THEN <<>> ELSE <<Trim(Head(lines))>>)
         \o MessagesUntilBad(Tail(lines))

\* Lines 163-196: the lines that are parsed and dispatched, in order; empty
\* and malformed lines are skipped.
Messages(lines) ==
  SelectSeq([i \in DOMAIN lines |-> Trim(lines[i])],
            LAMBDA t : t # <<>> /\ ~Malformed(t))

\* stdout 'data' handler, lines 139-142, for a chunk of the next k bytes.
Read(c, k) ==
  /\ ~child[c].closed /\ ~child[c].errored
  /\ LET text == buffer \o ToString(SubSeq(stream, nread + 1, nread + k))
         sp == Split(text, <<>>, <<>>)
     IN  /\ buffer' = sp.kept
         /\ dispatched' = dispatched \o Messages(sp.lines)
  /\ nread' = nread + k
  /\ UNCHANGED <<process, child, requestId, pending, timers, notifications, sessionId,
                 initialized, models, modes, contextUsage, compacting, commands,
                 sessionLock, persisted, op, disp, chain, ahead, twice, left, nops,
                 nnotif, nsid, perm, hist, stream, current, assembly>>

\* A running client whose child writes some stream.
FrameInit ==
  /\ ClientAfter(0)
  /\ editModeEnabled = FALSE
  /\ reply = NoReply
  /\ stream \in Streams
  /\ nread = 0 /\ buffer = <<>> /\ dispatched = <<>>
  /\ NoPrompt

\* The stream is delivered in reads of any sizes, empty ones included.
FrameNext == \E c \in DOMAIN child, k \in 0..(Len(stream) - nread) : Read(c, k)

\* The reader on its own.
FrameSpec == FrameInit /\ [][FrameNext]_vars

\* Single-byte output with malformed lines in it.
Garbled == {s \in UNION {[1..n -> {"j", "sp", "nl", "x"}] : n \in 0..MaxGarbled} :
              \E i \in DOMAIN s : s[i] = "x"}

GarbledInit ==
  /\ ClientAfter(0)
  /\ editModeEnabled = FALSE
  /\ reply = NoReply
  /\ stream \in Garbled
  /\ nread = 0 /\ buffer = <<>> /\ dispatched = <<>>
  /\ NoPrompt

\* The reader on output that is not all JSON.
GarbledSpec == GarbledInit /\ [][FrameNext]_vars

\* ---------------------------------------------------------- prompt assembly
\* Texts are sequences of pieces, so that what is joined can be told apart.
MaxMessages == 2
MaxAttachments == 2

\* Every sequence of at most n elements of S.
SeqsUpTo(S, n) == UNION {[1..k -> S] : k \in 0..n}

\* The arguments tried: with and without a system prompt, messages of every
\* role, with and without a document, attachments with and without a type.
MessagesTried == {[role |-> "user", content |-> "a"],
              [role |-> "assistant", content |-> "b"],
              [role |-> "tool", content |-> "c"]}
DocumentsTried == {[uri |-> "file:///doc.md", content |-> "doc", mimeType |-> m] :
                m \in {"", "text/html"}}
ImagesTried == {[data |-> "i1", mimeType |-> ""], [data |-> "i2", mimeType |-> "image/jpeg"]}
FilesTried == {[name |-> "f1", data |-> "t1", mimeType |-> ""],
          [name |-> "f2", data |-> "t2", mimeType |-> "text/csv"]}

ArgsTried ==
  [systemPrompt : {"", "sys"},
   messages : SeqsUpTo(MessagesTried, MaxMessages),
   documentResource : SeqsUpTo(DocumentsTried, 1),
   imageAttachments : SeqsUpTo(ImagesTried, MaxAttachments),
   fileAttachments : SeqsUpTo(FilesTried, MaxAttachments)]

\* Array.prototype.join (line 573).
RECURSIVE Join(_, _)
Join(parts, sep) ==
  IF parts = <<>> THEN <<>>
  ELSE IF Len(parts) = 1 THEN parts[1]
  ELSE parts[1] \o <<sep>> \o Join(Tail(parts), sep)

\* `x || fallback` on a string.
Or(x, fallback) == IF x = "" THEN fallback ELSE x

\* Lines 567-573: the paragraphs and the text made of them.
Parts(a) ==
  (IF a.systemPrompt # "" THEN <<<<"[System] ", a.systemPrompt>>>> ELSE <<>>) \o
  [i \in 1..Len(a.messages) |->
     <<(IF a.messages[i].role = "user" THEN "User" ELSE "Assistant"), ": ",
       a.messages[i].content>>]

PromptText(a) == Join(Parts(a), "\n\n")

\* Lines 576, 582-590, 595-601, 607-615: the blocks.
TextBlock(a) == [type |-> "text", text |-> PromptText(a)]
DocumentBlock(d) == [type |-> "resource", uri |-> <<d.uri>>, text |-> d.content,
                     mimeType |-> Or(d.mimeType, "text/markdown")]
ImageBlock(img) == [type |-> "image", data |-> img.data,
                    mimeType |-> Or(img.mimeType, "image/png")]
FileBlock(file) == [type |-> "resource", uri |-> <<"file://attachment/", file.name>>,
                    text |-> file.data, mimeType |-> Or(file.mimeType, "text/plain")]

Each(items, Block(_)) == [i \in 1..Len(items) |-> Block(items[i])]

\* Faulty variant: the files are appended before the images.
PromptFilesFirst(a) ==
  <<TextBlock(a)>> \o Each(a.documentResource, DocumentBlock)
    \o Each(a.fileAttachments, FileBlock) \o Each(a.imageAttachments, ImageBlock)

\* chatStream, lines 566-616: the content blocks of session/prompt.
Prompt(a) ==
  <<TextBlock(a)>> \o Each(a.documentResource, DocumentBlock)
    \o Each(a.imageAttachments, ImageBlock) \o Each(a.fileAttachments, FileBlock)

Assemble ==
  /\ prompt = <<>>
  /\ prompt' = Prompt(args)
  /\ UNCHANGED <<process, child, requestId, pending, timers, notifications, sessionId,
                 initialized, models, modes, contextUsage, compacting, commands,
                 sessionLock, persisted, op, disp, chain, ahead, twice, left, nops,
                 nnotif, nsid, perm, hist, wire, current, args>>

AssembleInit ==
  /\ ClientAfter(0)
  /\ editModeEnabled = FALSE
  /\ reply = NoReply
  /\ NoOutput
  /\ args \in ArgsTried
  /\ prompt = <<>>

AssembleNext == Assemble

\* The assembly on its own.
AssembleSpec == AssembleInit /\ [][AssembleNext]_vars

\* ------------------------------------------------------------------ claims
\* At most one terminal event in what a turn has yielded, and it is the last.
TerminalLast(ys) == \A i \in DOMAIN ys : Terminal(ys[i]) => i = Len(ys)

\* C1: every chatStream call whose consumer keeps pulling reaches a terminal
\* event (done or error), whatever ends the turn; the yielded sequence holds
\* at most one terminal event, and nothing is yielded after it.  A turn whose
\* consumer left before the terminal event is the only exception.
C1_TurnTerminates ==
  /\ [](\A o \in Ops : TerminalLast(op[o].yielded))
  /\ \A o \in Turns : (op[o].kind = "chat") ~> (Ended(op[o]) \/ op[o].pc = "finished")

\* A turn that yielded two events and then done.
C1_Witness ==
  \E o \in Ops : /\ Len(op[o].yielded) = 3
                 /\ op[o].yielded[3].type = "done"

\* What the consumer has not been handed yet, in order: the item of a wakeup
\* whose continuation has not run, then the queue.
Wakeup(rec) == IF rec.pc = "woken" THEN <<rec.item>> ELSE <<>>

NotificationEvent(e) ==
  e.type \in {"token", "tool_call", "tool_call_update", "tool_result", "compaction"}

\* The events translated from notifications appear in the agent's order.
AgentOrder(es) ==
  \A i, j \in DOMAIN es :
    (i < j /\ NotificationEvent(es[i]) /\ NotificationEvent(es[j])) => es[i].n < es[j].n

\* C2: within a turn the events are yielded in the order the subscriber and
\* the prompt callbacks pushed them, which for notifications is the order of
\* their arrival; none is lost or duplicated: what was pushed is exactly what
\* was yielded, then the pending wakeup, then the queue.
C2_OrderKept ==
  \A o \in Ops :
    (op[o].kind = "chat" /\ op[o].pc # "finished") =>
      /\ op[o].sent = op[o].yielded \o Wakeup(op[o]) \o op[o].queue
      /\ AgentOrder(op[o].sent)

\* A turn that yielded a tool_call and then its tool_call_update.
C2_Witness ==
  \E o \in Ops : /\ Len(op[o].yielded) >= 2
                 /\ op[o].yielded[1].type = "tool_call"
                 /\ op[o].yielded[2].type = "tool_call_update"

\* C3: every registered request gets exactly one outcome.  No promise is
\* settled twice; a waiter's promise is pending exactly while its id is in the
\* pending table; every pending id has its deadline timer armed (so none stays
\* pending forever) and no timer outlives its entry.
C3_OneOutcome ==
  /\ ~twice
  /\ timers = Live
  /\ \A i \in Live : i <= requestId
  /\ \A o \in Ops :
       /\ op[o].req # 0 => (op[o].res.st = "pending" <=> op[o].req \in Live)
       /\ op[o].preq # 0 => (op[o].pres.st = "pending" <=> op[o].preq \in Live)
  /\ \A d \in Disps : (disp[d].req # 0 /\ ~disp[d].settled) => disp[d].req \in Live

\* A request that ended by its deadline, its entry removed.
C3_Witness ==
  \E o \in Ops : /\ op[o].req # 0 /\ op[o].req \notin Live
                 /\ \E m \in Requests : op[o].res = ErrRes(TimedOut(m))

\* C4: session establishment is serialized: at most one session/load or
\* session/new exchange is in flight at any time, in every interleaving, a
\* cleanup that clears the in-flight marker included.
C4_Serialized ==
  Cardinality({i \in Live : pending[i].method \in {"session/load", "session/new"}}) <= 1

\* A request of the given method is registered by the step.
Sends(method) ==
  \E i \in DOMAIN pending' \ DOMAIN pending : pending'[i].method = method

\* C5: resume first, fall back silently.  session/load carries the non-expired
\* persisted identifier; session/new is sent only when no non-expired record
\* exists (never before the load, and after a failed load only with the record
\* cleared); a successful load sends nothing and persists nothing; a successful
\* session/new leaves the persisted identifier equal to the in-memory one; and
\* once a resume has failed the record never holds the identifier that failed.
C5_ResumeFirst ==
  [][/\ Sends("session/new") => LoadSessionId' = 0
     /\ Sends("session/load") =>
          /\ LoadSessionId # 0
          /\ \A i \in DOMAIN pending' \ DOMAIN pending : pending'[i].sid = LoadSessionId
     /\ \A o \in Ops :
          /\ (op[o].pc = "load" /\ op[o].res.st = "ok" /\ op'[o].pc # "load") =>
               /\ requestId' = requestId
               /\ persisted' = persisted
               /\ sessionId' # 0
          /\ (op[o].pc = "load" /\ op[o].res.st = "err" /\ op'[o].pc # "load") =>
               persisted' = NoFile
          /\ (op[o].pc = "new" /\ op[o].res.st = "ok" /\ op'[o].pc # "new") =>
               /\ sessionId' = op[o].res.sid
               /\ persisted'.sessionId = sessionId'
          /\ (op'[o].pc = "new" /\ op'[o].saved # 0) =>
               persisted'.sessionId # op'[o].saved
    ]_vars

\* A resume that failed, followed by a session/new that succeeded.
C5_Witness ==
  \E o \in Ops : /\ op[o].pc = "ensure_finally" /\ op[o].saved = OldSid
                 /\ op[o].est.st = "ok" /\ op[o].est.sid # OldSid
                 /\ persisted.sessionId = sessionId /\ sessionId = op[o].est.sid

\* The step is the 'error' or the 'close' event of child c.
Exits(c) ==
  \/ child'[c].closed /\ ~child[c].closed
  \/ child'[c].errored /\ ~child[c].errored

ExitMessages == {"process error", "process exited"}

\* C6: the 'error' or 'close' event of a child runs a full cleanup: every
\* pending request fails with the event's error, the pending table and the
\* subscriber list are empty, the persisted record is cleared, every cached
\* field is reset and the handle is dropped; an operation that then spawns
\* gets a child never held before.
C6_FullCleanup ==
  [][/\ \A c \in DOMAIN child : Exits(c) =>
          /\ pending' = <<>>
          /\ notifications' = <<>>
          /\ persisted' = NoFile
          /\ sessionId' = 0 /\ ~initialized'
          /\ ~models' /\ ~modes' /\ ~commands'
          /\ contextUsage' = 0 /\ ~compacting'
          /\ process' = 0
          /\ \A o \in Ops :
               /\ op[o].req \in Live =>
                    op'[o].res.st = "err" /\ op'[o].res.msg \in ExitMessages
               /\ op[o].preq \in Live =>
                    op'[o].pres.st = "err" /\ op'[o].pres.msg \in ExitMessages
     /\ (process = 0 /\ process' # 0) => process' \notin DOMAIN child
    ]_vars

\* A child exited while a request was pending on it: the request failed.
C6_Witness ==
  \E o \in Ops : /\ op[o].req # 0 /\ op[o].res = ErrRes("process exited")
                 /\ process = 0 /\ pending = <<>>

CleanupMessages == ExitMessages \cup {"terminated"}

\* The step is a cleanup: the pending entries are failed all at once.
Cleans == Live # {} /\ pending' = <<>> /\ process' = 0 /\ notifications' = <<>>

\* The turn of o has yielded the error event with message msg, its last.
EndedWith(rec, msg) ==
  Ended(rec) /\ rec.yielded[Len(rec.yielded)] = Event("error", 0, msg)

\* C7: a cleanup (child exit, child error, dispose) while a turn waits for its
\* session/prompt response fails the prompt with the cleanup's message, and
\* that turn then yields an error event with this message as its terminal
\* event although its subscriber is gone: it does not hang.
C7_TurnFailsOnCleanup ==
  /\ [][\A o \in Ops :
          (Cleans /\ op[o].preq \in Live) =>
            /\ op'[o].pres.st = "err" /\ op'[o].pres.msg \in CleanupMessages
            /\ notifications' = <<>>
       ]_vars
  /\ \A o \in Turns : \A msg \in CleanupMessages :
       (op[o].kind = "chat" /\ op[o].pc # "finished" /\ op[o].pres = ErrRes(msg))
         ~> (EndedWith(op[o], msg) \/ op[o].pc = "finished")

\* dispose ran while a turn waited for the response: the turn ended in error.
C7_Witness ==
  \E o \in Ops : /\ EndedWith(op[o], "terminated")
                 /\ process = 0 /\ notifications = <<>>

\* C8: disposal drains and allows restart; in particular the exit or error
\* event of a child that dispose has signalled, delivered when another child
\* is held, does not fail the pending requests of the held child, drop its
\* handle or clear its session.
C8_LateEventHarmless ==
  [][\A c \in DOMAIN child :
       (Exits(c) /\ child[c].killed /\ process # 0 /\ process # c) =>
         /\ process' = process
         /\ pending' = pending
         /\ sessionId' = sessionId
    ]_vars

\* C9: when a turn has terminated (the consumer was handed done or error and
\* left the loop, by break or by draining), its subscriber is no longer in
\* the subscriber list.
C9_SubscriberRemoved ==
  \A o \in Ops :
    (op[o].kind = "chat" /\ op[o].pc = "finished" /\ op[o].ended) =>
      \A k \in DOMAIN notifications : notifications[k] # o

\* C10: one handle at a time, owned from spawn to dispose or exit: without an
\* exit or a dispose one child serves every operation, and every child ever
\* spawned is the held handle, or was signalled, or was seen to exit.
C10_OwnedChild ==
  /\ (\A c \in DOMAIN child : ~child[c].killed /\ ~child[c].closed /\ ~child[c].errored)
       => Len(child) <= 1
  /\ \A c \in DOMAIN child :
       c = process \/ child[c].killed \/ child[c].closed \/ child[c].errored

\* The positions in O of the options whose kind is in K.
Positions(O, K) == {i \in DOMAIN O : O[i].kind \in K}

Least(S) == CHOOSE i \in S : \A j \in S : i <= j

\* What the claim prescribes for option list O: the id of the first option
\* of kind `once`, else of the first option of one of the kinds `any`, else
\* the literal `once` (also when the option chosen has no id to give).
Prescribed(O, once, any) ==
  LET pick == IF Positions(O, {once}) # {} THEN Least(Positions(O, {once}))
              ELSE IF Positions(O, any) # {} THEN Least(Positions(O, any))
              ELSE 0
  IN  IF pick # 0 /\ O[pick].optionId # "" THEN O[pick].optionId ELSE once

AllowKinds == {"allow_once", "allow_always"}
RejectKinds == {"reject_once", "reject_always"}

\* C11: the reply to a session/request_permission request with options O
\* selects an optionId that depends only on O and on the edit flag when the
\* request is handled: edits allowed, the first allow_once option, else the
\* first allow* option, else "allow_once"; edits disallowed, the same on the
\* reject side.  With edits disallowed and a reject option that has an id,
\* the reply never carries the id of an allow option, however the flag was
\* set before.  The frame goes to the held child.
C11_PermissionReply ==
  [][(reply' # reply /\ reply'.selected) =>
       LET O == reply'.options IN
       /\ reply'.child = process /\ process # 0
       /\ editModeEnabled => reply'.optionId = Prescribed(O, "allow_once", AllowKinds)
       /\ ~editModeEnabled =>
            /\ reply'.optionId = Prescribed(O, "reject_once", RejectKinds)
            /\ (\E i \in Positions(O, RejectKinds) : O[i].optionId # "") =>
                 \A j \in Positions(O, AllowKinds) : reply'.optionId # O[j].optionId
    ]_vars

\* Read-only again after edits had been allowed: a request that offers
\* allow_always, allow_once and reject_always was answered with the third.
C11_Witness ==
  /\ ~editModeEnabled
  /\ reply.selected /\ Len(reply.options) = 3
  /\ reply.options[1].kind = "allow_always" /\ reply.options[2].kind = "allow_once"
  /\ reply.options[3].kind = "reject_always"
  /\ reply.optionId = "option-3"

\* The step is a cancel() call.
Cancels == left'.cancels < left.cancels

\* C12: cancel() is best-effort and never raises.  With a session S it writes
\* exactly one request frame, session/cancel with sessionId S, and returns
\* only when that request has its outcome, whatever the outcome is; without a
\* session it writes no frame.
C12_CancelBestEffort ==
  /\ [][Cancels =>
          IF sessionId # 0
            THEN /\ requestId' = requestId + 1
                 /\ DOMAIN pending' = DOMAIN pending \cup {requestId'}
                 /\ pending'[requestId'] = [method |-> "session/cancel",
                                            child |-> process, sid |-> sessionId]
                 /\ \A i \in DOMAIN pending : pending'[i] = pending[i]
            ELSE requestId' = requestId /\ pending' = pending
       ]_vars
  /\ [][\A o \in Ops :
          (op[o].kind = "cancel" /\ op[o].pc = "cancel" /\ op'[o].pc # "cancel") =>
            /\ op[o].res.st # "pending" /\ op[o].req \notin DOMAIN pending
            /\ op'[o].pc = "finished"
       ]_vars
  /\ [](\A o \in Ops : op[o].kind = "cancel" => ~op[o].raised)

\* A cancel() whose request the agent answered with an error has returned.
C12_Witness ==
  \E o \in Ops : /\ op[o].kind = "cancel" /\ op[o].pc = "finished"
                 /\ op[o].res = ErrRes("agent")

\* The turns under way: chatStream calls that have not returned.
ActiveTurns == {o \in Ops : op[o].kind = "chat" /\ op[o].pc # "finished"}

\* The step is the return of a cancel() call.
CancelReturns ==
  \E c \in Ops : op[c].kind = "cancel" /\ op[c].pc = "cancel" /\ op'[c].pc = "finished"

\* The step pushes a terminal event into the queue of turn o.
PushesTerminal(o) ==
  /\ Len(op'[o].sent) > Len(op[o].sent)
  /\ \E i \in DOMAIN op'[o].sent : i > Len(op[o].sent) /\ Terminal(op'[o].sent[i])

\* C13: cancel() does not abort the caller's sequence.  The call and its
\* return leave every turn's subscriber, queue, wakeup and pending
\* session/prompt entry as they are; a turn gets a terminal event only from
\* the outcome of its own session/prompt request (or, before any prompt was
\* sent, from a failed session establishment).
C13_CancelLeavesTurn ==
  [][/\ (Cancels \/ CancelReturns) =>
          /\ notifications' = notifications
          /\ \A o \in ActiveTurns : op'[o] = op[o]
          /\ \A i \in DOMAIN pending :
               pending[i].method = "session/prompt" =>
                 i \in DOMAIN pending' /\ pending'[i] = pending[i]
     /\ \A o \in ActiveTurns :
          PushesTerminal(o) => (op[o].pres.st # "pending" \/ op'[o].pc = "yield_catch")
    ]_vars

\* cancel() was answered and has returned while a turn still waits for its
\* session/prompt response, subscribed and without a terminal event.
C13_Witness ==
  \E o, c \in Ops :
    /\ op[o].kind = "chat" /\ op[o].pc = "wait" /\ op[o].preq \in DOMAIN pending
    /\ ~op[o].done
    /\ \E k \in DOMAIN notifications : notifications[k] = o
    /\ op[c].kind = "cancel" /\ op[c].pc = "finished" /\ op[c].res.st = "ok"

\* The step is a resetSession() call.
Resets == left'.resets < left.resets

\* C14: resetSession, in any state, clears the session identifier, the model
\* and mode catalogs, the context usage, the compaction flag, the command
\* catalog and the persisted record (so that the next establishment cannot
\* resume the old identifier), and leaves the child handle, the initialized
\* flag and the pending table as they are.
C14_ResetClears ==
  [][Resets =>
       /\ sessionId' = 0
       /\ ~models' /\ ~modes' /\ ~commands'
       /\ contextUsage' = 0 /\ ~compacting'
       /\ persisted' = NoFile /\ LoadSessionId' = 0
       /\ process' = process
       /\ initialized' = initialized
       /\ pending' = pending
    ]_vars

\* The step is the return of a dispose() call that found a process.
DisposeReturns == \E d \in Disps : disp[d].pc = "shutdown" /\ disp'[d].pc = "idle"

\* C15: conversations survive server restarts.  The restarted server starts
\* from the constructor's state and the session file the old one left: when
\* the signal handler's dispose() returns with session S established, the
\* file still gives S to _loadSessionId (which is what makes the first
\* establishment after the restart send session/load with S).
C15_SessionSurvivesShutdown ==
  [][(DisposeReturns /\ sessionId # 0) => LoadSessionId' = sessionId]_vars

\* The step reads a kiro.dev/metadata notification that carries a
\* contextUsagePercentage (the value 2), or one that carries none.
ReadsUsage == left'.usages < left.usages
ReadsOther == left'.others < left.others

\* The turns subscribed to notifications.
Subscribed == {o \in Ops : \E k \in DOMAIN notifications : notifications[k] = o}

\* What the step pushes into the queue of turn o.
Pushed(o) ==
  {op'[o].sent[i] : i \in {j \in DOMAIN op'[o].sent : j > Len(op[o].sent)}}

\* C16: while a turn is running, a kiro.dev/metadata notification with
\* contextUsagePercentage p makes the turn yield context_usage{percentage: p}
\* and getContextUsage() return p afterwards; one without the field yields no
\* event and leaves the cached context usage as it is.
C16_MetadataYields ==
  [][/\ ReadsUsage =>
          /\ contextUsage' = 2
          /\ \A o \in Subscribed : Event("context_usage", 2, "") \in Pushed(o)
     /\ (ReadsOther /\ ~ReadsUsage) =>
          /\ contextUsage' = contextUsage
          /\ \A o \in Subscribed : \A e \in Pushed(o) : e.type # "context_usage"
    ]_vars

\* The step runs the callbacks of the fulfilled session/prompt promise of o.
PromptFulfilled(o) == op[o].pres.st = "ok" /\ op'[o].pres.st = "pending"

\* C17: when the session/prompt response carries a contextUsage object, the
\* cached context usage is set to it and context_usage then done are pushed
\* behind every event pushed before; the turn yields them as its last two
\* events.  Without contextUsage only done is pushed, and nothing else is a
\* source of context_usage events.
C17_UsageThenDone ==
  /\ [][\A o \in Ops :
          PromptFulfilled(o) =>
            LET cu == op[o].pres.cu IN
            /\ contextUsage' = IF cu # 0 THEN cu ELSE contextUsage
            /\ o \in ActiveTurns =>
                 op'[o].sent = op[o].sent \o
                   (IF cu # 0 THEN <<Event("context_usage", cu, ""), Event("done", 0, "")>>
                    ELSE <<Event("done", 0, "")>>)
       ]_vars
  /\ [](\A o \in Ops : \A i \in DOMAIN op[o].yielded :
          op[o].yielded[i].type = "context_usage" =>
            /\ i >= Len(op[o].yielded) - 1
            /\ i < Len(op[o].yielded) => op[o].yielded[i + 1].type = "done"
            /\ i < Len(op[o].sent) /\ op[o].sent[i + 1].type = "done")

\* A turn yielded a notification's event, then the context usage of the
\* response, then done; the cache holds that usage.
C17_Witness ==
  \E o \in Ops :
    /\ Len(op[o].yielded) = 3
    /\ NotificationEvent(op[o].yielded[1])
    /\ op[o].yielded[2] = Event("context_usage", 1, "")
    /\ op[o].yielded[3].type = "done"
    /\ contextUsage = 1

\* The step begins an operation (chatStream, an _ensureSession caller, cancel).
Begins == nops' > nops

\* C18: an operation that begins after a dispose() has completed fails at
\* once with an error: it spawns no child and writes no frame.
C18_DisposedFails ==
  [][(disposed /\ Begins) =>
       /\ Len(child') = Len(child) /\ process' = process
       /\ requestId' = requestId /\ pending' = pending
       /\ op'[nops'].res.st = "err" \/ op'[nops'].est.st = "err"
    ]_vars

\* C18, amended: dispose() does not retire the client.  A session user that
\* begins after a dispose() has completed, with no child held and no
\* establishment in flight, is served as on a fresh client: it spawns a child
\* never held before and writes initialize to it, and waits for the answer;
\* it fails at once only when the command cannot be found.
C18_DisposedRestarts ==
  [][(disposed /\ Begins /\ op'[nops'].kind # "cancel"
        /\ process = 0 /\ sessionLock = 0) =>
       \/ /\ op'[nops'].res = ErrRes("cannot find")
          /\ process' = 0 /\ child' = child /\ pending' = pending
       \/ /\ process' = Len(child) + 1 /\ Len(child') = Len(child) + 1
          /\ ~child'[process'].killed /\ ~child'[process'].closed
          /\ requestId' = requestId + 1
          /\ DOMAIN pending' = DOMAIN pending \cup {requestId'}
          /\ pending'[requestId'].method = "initialize"
          /\ pending'[requestId'].child = process'
          /\ op'[nops'].req = requestId' /\ op'[nops'].res.st = "pending"
    ]_vars

\* After a completed dispose() a second child is held and a caller waits for
\* its answer to initialize.
C18_Witness ==
  /\ disposed /\ process = 2
  /\ \E o \in Ops : /\ op[o].pc = "initialize" /\ op[o].req \in DOMAIN pending
                    /\ pending[op[o].req].child = 2

\* C19: disposal is idempotent.  A dispose() called when no child is held
\* (as after a completed dispose) returns at once: it writes no frame, arms
\* no timer, signals nothing and changes no field of the client.  Every
\* dispose() that runs to its end, alone or overlapping another, leaves no
\* handle, an empty pending table, no session, no subscribers and no lock.
\* A child is signalled only while it is the held handle and the handle is
\* dropped in the same step; a handle once dropped is never held again, so
\* no child is signalled twice.
C19_DisposeIdempotent ==
  [][/\ (left'.disposes < left.disposes /\ process = 0) =>
          UNCHANGED <<process, child, requestId, pending, timers, notifications,
                      sessionId, initialized, models, modes, contextUsage,
                      compacting, commands, sessionLock, persisted, op, disp>>
     /\ DisposeReturns =>
          /\ process' = 0 /\ pending' = <<>> /\ sessionId' = 0
          /\ notifications' = <<>> /\ ~initialized' /\ sessionLock' = 0
     /\ \A c \in DOMAIN child :
          (child'[c].killed /\ ~child[c].killed) =>
             c = process /\ process' = 0 /\ ~child[c].closed
     /\ process' # process => process' = 0 \/ process' = Len(child) + 1
    ]_vars

\* Two dispose() calls overlapped: the first has signalled the child and
\* cleaned up, the second is about to run its last step with no handle held.
C19_Witness ==
  /\ disposed /\ process = 0 /\ child[1].killed
  /\ \E d \in Disps : DispReady(d)

\* The timer of a pending request fires.
TimesOut(i) == i \in Live /\ Timeout(i)

\* The callers that wait for request i.
Waiters(i) == {o \in Ops : op[o].req = i \/ op[o].preq = i}

\* The dispose() calls that wait for request i.
Shutdowns(i) == {d \in Disps : disp[d].req = i /\ disp[d].pc = "shutdown"}

\* C20: a request that gets no response by its deadline fails with a
\* "timed out" error that names its method and no other; the error goes to
\* the one waiter of that request, and the entry is removed.  Every other
\* pending entry, every other caller, the session state, the subscriber list
\* and the process handle are as before.  A response for that identifier
\* that arrives later is ignored: reading it changes nothing.
C20_TimeoutFrame ==
  [][/\ \A i \in timers :
          TimesOut(i) =>
            LET m == pending[i].method
                e == ErrRes(TimedOut(m))
            IN  /\ \A n \in Requests \ {m} : TimedOut(n) # e.msg
                /\ DOMAIN pending' = Live \ {i}
                /\ \A j \in Live \ {i} : pending'[j] = pending[j]
                /\ Cardinality(Waiters(i)) + Cardinality(Shutdowns(i)) = 1
                /\ \A o \in Waiters(i) :
                     op'[o] = IF op[o].req = i THEN [op[o] EXCEPT !.res = e]
                              ELSE [op[o] EXCEPT !.pres = e]
                /\ \A o \in Ops \ Waiters(i) : op'[o] = op[o]
                /\ \A d \in Shutdowns(i) : disp'[d] = [disp[d] EXCEPT !.settled = TRUE]
                /\ \A d \in Disps \ Shutdowns(i) : disp'[d] = disp[d]
                /\ UNCHANGED <<process, child, requestId, notifications, sessionId,
                               initialized, models, modes, contextUsage, compacting,
                               commands, sessionLock, persisted>>
     /\ \A r \in Lates :
          /\ r.id \notin Live
          /\ ProcessBuffer(ReadState, <<r>>) = ReadState
     /\ (late'.read /\ ~late.read /\ pending' = pending) =>
          UNCHANGED <<process, child, requestId, pending, notifications, sessionId,
                      initialized, models, modes, contextUsage, compacting, commands,
                      sessionLock, persisted, op, disp, timers, nnotif, nsid>>
    ]_vars

\* A request has timed out and a response to it has been read afterwards.
C20_Witness == late.read /\ late.id \notin Live

\* What the waiter of a request holds once the response m has been read: a
\* failure with the agent's message when m carries an error, else m's result.
Carries(r, m) ==
  IF m.ok THEN r.st = "ok" /\ r.cu = m.cu /\ r.cat = m.cat
  ELSE r = ErrRes("agent")

\* The reader state after the lines, the session identifiers an agent hands
\* out aside (they depend on the order the agent answers in).
Routed(lines) ==
  LET st == ProcessBuffer(ReadState, lines)
  IN  [pending |-> st.pending,
       op |-> [o \in Ops |-> [st.op[o] EXCEPT !.res.sid = 0]],
       disp |-> st.disp]

\* C21: responses are routed by identifier.  Reading a response with
\* identifier i removes the entry i and no other, gives the waiter of i the
\* result (or the agent's error) and leaves every other caller as it was;
\* and two responses to concurrent requests have the same effect in either
\* order of arrival.
C21_RoutedById ==
  /\ \A i \in Live : \A m \in ResponsesTo(i) :
       LET st == ProcessBuffer(ReadState, <<m>>)
       IN  /\ DOMAIN st.pending = Live \ {i}
           /\ \A j \in Live \ {i} : st.pending[j] = pending[j]
           /\ \A o \in Ops :
                IF op[o].req = i
                  THEN /\ Carries(st.op[o].res, m)
                       /\ [st.op[o] EXCEPT !.res = op[o].res] = op[o]
                ELSE IF op[o].preq = i
                  THEN /\ Carries(st.op[o].pres, m)
                       /\ [st.op[o] EXCEPT !.pres = op[o].pres] = op[o]
                ELSE st.op[o] = op[o]
           /\ \A d \in Disps :
                st.disp[d] = IF disp[d].req = i /\ disp[d].pc = "shutdown"
                               THEN [disp[d] EXCEPT !.settled = TRUE] ELSE disp[d]
  /\ \A i \in Live, j \in Live :
       i < j => \A m \in ResponsesTo(i), n \in ResponsesTo(j) :
                  Routed(<<m, n>>) = Routed(<<n, m>>)

\* Two requests were pending and the later one was answered first: its caller
\* holds the result while the earlier request still waits.
C21_Witness ==
  \E o \in Ops, i \in Live :
     /\ i < op[o].req /\ op[o].req \notin Live
     /\ op[o].res.st = "ok"

\* What is dispatched when the stream is delivered in one read.
Whole(s) == Messages(Split(ToString(s), <<>>, <<>>).lines)

\* The newlines among the bytes read so far.
NewlinesRead == Cardinality({i \in 1..nread : stream[i] = "nl"})

\* C22: decoding is independent of the chunking.  However the stream is cut
\* into reads, what has been dispatched is an initial part of what the stream
\* delivered whole dispatches, and all of it once the stream has been read; a
\* frame is dispatched only once its newline has been read.
C22_ChunkIndependent ==
  /\ Len(dispatched) <= Len(Whole(stream))
  /\ \A i \in DOMAIN dispatched : dispatched[i] = Whole(stream)[i]
  /\ nread = Len(stream) => dispatched = Whole(stream)
  /\ Len(dispatched) <= NewlinesRead

\* The requests of setModel and setMode that are awaiting their response.
SetRequests == {i \in Live : pending[i].method \in {SetMethod(k) : k \in SetKinds}}

\* A caller of setModel / setMode returns in this step with outcome st.
SetReturns(o, st) ==
  /\ op[o].kind \in SetKinds /\ op[o].pc = "set" /\ op[o].res.st = st
  /\ op'[o].pc = "finished"

\* C23: setModel(m) and setMode(m) each send one request, session/set_model or
\* session/set_mode, for the session that was ensured, and no other; the
\* current identifier of the cached catalog becomes m only in the step in which
\* a setter returns from a fulfilled request, and the return of a setter whose
\* request failed, timed out or was rejected because the process died leaves it
\* as it was.
C23_SetAfterSuccess ==
  [][/\ \A o \in Ops :
          op[o].kind \in SetKinds /\ HasSession(o) /\ SessionOf(o).st = "ok"
            => /\ CanSend(process, child)
               /\ op'[o].pc = "set"
                    => /\ SetRequests' = SetRequests \cup {NextId}
                       /\ NextId \notin Live
                       /\ pending'[NextId].method = SetMethod(op[o].kind)
                       /\ pending'[NextId].sid = SessionOf(o).sid
                       /\ op'[o].req = NextId
     /\ SetRequests' \subseteq SetRequests
          \/ \E o \in Ops : op[o].kind \in SetKinds /\ HasSession(o) /\ op'[o].pc = "set"
     /\ current'.model = "chosen" /\ current.model # "chosen"
          => \E o \in Ops : op[o].kind = "set_model" /\ SetReturns(o, "ok")
     /\ current'.mode = "chosen" /\ current.mode # "chosen"
          => \E o \in Ops : op[o].kind = "set_mode" /\ SetReturns(o, "ok")
     /\ \A o \in Ops : SetReturns(o, "err") => current' = current /\ op'[o].raised
    ]_vars

\* setModel returned from a fulfilled request and the catalog names the model
\* asked for, while a setMode whose request timed out has left the mode alone.
C23_Witness ==
  \E o, q \in Ops :
    /\ op[o].kind = "set_model" /\ op[o].pc = "finished" /\ op[o].res.st = "ok"
    /\ current.model = "chosen"
    /\ op[q].kind = "set_mode" /\ op[q].pc = "finished"
    /\ op[q].res = ErrRes(TimedOut("session/set_mode"))
    /\ modes /\ current.mode = "agent"

\* The requests for the command catalog that are awaiting their response.
Fetches == {i \in Live : pending[i].method = "_kiro.dev/commands/available"}

\* C24: getCommands sends _kiro.dev/commands/available only while no catalog is
\* cached; a call made while a catalog is cached returns it in the same step
\* and registers no request; a call whose fetch failed returns (an empty
\* catalog) without raising.
C24_FetchedOnce ==
  [][/\ Fetches' \subseteq Fetches \/ ~commands
     /\ commands /\ nops' = nops + 1 /\ op'[nops'].kind = "commands"
          => /\ op'[nops'].pc = "finished" /\ ~op'[nops'].raised
             /\ pending' = pending
     /\ \A o \in Ops :
          op[o].pc = "fetch" /\ op[o].res.st = "err" /\ op'[o].pc = "finished"
            => ~op'[o].raised /\ commands' = commands
    ]_vars

\* The initialize requests sent to child c that are awaiting their response.
Initializing(c) == {i \in Live : pending[i].method = "initialize" /\ pending[i].child = c}

\* C30: startup is memoized: no child has two initialize requests in flight,
\* and none while the client is initialized with it, whatever operations
\* trigger the initialization.
C30_InitializeOnce ==
  \A c \in DOMAIN child :
    /\ Cardinality(Initializing(c)) <= 1
    /\ initialized /\ process = c => Initializing(c) = {}

\* The paragraphs of a text: its pieces between the blank lines.
RECURSIVE Paragraphs(_, _, _)
Paragraphs(text, cur, acc) ==
  IF text = <<>> THEN (IF cur = <<>> THEN acc ELSE Append(acc, cur))
  ELSE IF Head(text) = "\n\n" THEN Paragraphs(Tail(text), <<>>, Append(acc, cur))
  ELSE Paragraphs(Tail(text), Append(cur, Head(text)), acc)

\* C25: the content blocks of session/prompt are one text block (a `[System]`
\* paragraph if a system prompt is given, then one `User:` or `Assistant:`
\* paragraph per message in input order, separated by blank lines), then the
\* document's resource block if given, then one image block per image in input
\* order, then one resource block per file in input order: 1 + (1 if document)
\* + #images + #files blocks.
C25_PromptAssembled ==
  prompt # <<>> =>
    LET s == IF args.systemPrompt # "" THEN 1 ELSE 0
        d == Len(args.documentResource)
        n == Len(args.imageAttachments)
        f == Len(args.fileAttachments)
        ps == Paragraphs(prompt[1].text, <<>>, <<>>)
    IN  /\ Len(prompt) = 1 + d + n + f
        /\ prompt[1].type = "text"
        /\ Len(ps) = s + Len(args.messages)
        /\ s = 1 => ps[1] = <<"[System] ", args.systemPrompt>>
        /\ \A i \in DOMAIN args.messages :
             /\ ps[s + i][1] \in {"User", "Assistant"}
             /\ ps[s + i][1] = "User" <=> args.messages[i].role = "user"
             /\ ps[s + i] = <<ps[s + i][1], ": ", args.messages[i].content>>
        /\ d = 1 => /\ prompt[2].type = "resource"
                    /\ prompt[2].uri = <<args.documentResource[1].uri>>
                    /\ prompt[2].text = args.documentResource[1].content
                    /\ prompt[2].mimeType \in {args.documentResource[1].mimeType,
                                               "text/markdown"} \ {""}
        /\ \A i \in 1..n :
             /\ prompt[1 + d + i].type = "image"
             /\ prompt[1 + d + i].data = args.imageAttachments[i].data
             /\ prompt[1 + d + i].mimeType \in {args.imageAttachments[i].mimeType,
                                                "image/png"} \ {""}
        /\ \A i \in 1..f :
             /\ prompt[1 + d + n + i].type = "resource"
             /\ prompt[1 + d + n + i].uri =
                  <<"file://attachment/", args.fileAttachments[i].name>>
             /\ prompt[1 + d + n + i].text = args.fileAttachments[i].data
             /\ prompt[1 + d + n + i].mimeType \in {args.fileAttachments[i].mimeType,
                                                    "text/plain"} \ {""}

\* A prompt was assembled from a system prompt, two messages of different
\* roles, a document, two different images and two different files.
C25_Witness ==
  /\ prompt # <<>>
  /\ args.systemPrompt # "" /\ Len(args.documentResource) = 1
  /\ Len(args.messages) = 2 /\ args.messages[1].role # args.messages[2].role
  /\ Len(args.imageAttachments) = 2
  /\ args.imageAttachments[1] # args.imageAttachments[2]
  /\ Len(args.fileAttachments) = 2
  /\ args.fileAttachments[1] # args.fileAttachments[2]

\* C26: loading the session file gives the stored identifier if and only if
\* the file parses and now - timestamp < 24 hours; a record of exactly 24 hours
\* or more, an unparsable file and a missing file give none, and the
\* establishment then sends session/new instead of session/load.
C26_ResumeWithinDay ==
  LET young == persisted.kind = "json" /\ Now - persisted.timestamp < Day IN
  /\ LoadSessionId = IF young THEN persisted.sessionId ELSE 0
  /\ \A o \in Ops :
       /\ op[o].pc = "load" /\ op[o].res.st = "pending" /\ op[o].req \in Live
            => /\ young /\ pending[op[o].req].method = "session/load"
               /\ pending[op[o].req].sid = persisted.sessionId
       /\ op[o].pc = "new" /\ op[o].res.st = "pending" /\ op[o].req \in Live
            /\ op[o].saved = 0
            => /\ ~young \/ persisted.sessionId = 0
               /\ pending[op[o].req].method = "session/new"

\* A record of exactly 24 hours was found, and session/new is in flight.
C26_Witness ==
  /\ persisted = Record(OldSid, Now - Day)
  /\ \E o \in Ops : op[o].pc = "new" /\ op[o].req \in Live

\* What the turns have been handed, leaving the numbering of the events aside.
Types(es) == [i \in DOMAIN es |-> es[i].type]
Handed(st) ==
  [o \in Ops |-> [pc |-> st.op[o].pc, done |-> st.op[o].done,
                  resolveNext |-> st.op[o].resolveNext, item |-> st.op[o].item.type,
                  queue |-> Types(st.op[o].queue), sent |-> Types(st.op[o].sent),
                  pres |-> st.op[o].pres]]

\* The lines that can be read next to one of unknown kind.
KnownLines == Notifs \cup UNION {ResponsesTo(i) : i \in Live}

\* C27: a session/update notification of a kind the handler does not know
\* produces no turn event and neither ends nor breaks a turn: read alone it
\* leaves the reader's state as it was, read before or after another line it
\* leaves every turn with what that line alone gives it, and the read changes
\* nothing of the client.
C27_UnknownIgnored ==
  /\ [](\A m \in Unknowns :
          /\ ProcessBuffer(ReadState, <<m>>) = [ReadState EXCEPT !.nnotif = @ + 1]
          /\ \A n \in KnownLines :
               /\ Handed(ProcessBuffer(ReadState, <<m, n>>))
                    = Handed(ProcessBuffer(ReadState, <<n>>))
               /\ Handed(ProcessBuffer(ReadState, <<n, m>>))
                    = Handed(ProcessBuffer(ReadState, <<n>>)))
  /\ [][left'.unknowns < left.unknowns /\ left'.notifs = left.notifs
          /\ pending' = pending
          => UNCHANGED <<process, child, requestId, pending, timers, notifications,
                         sessionId, initialized, models, modes, contextUsage,
                         compacting, commands, sessionLock, persisted, op, disp, nsid,
                         perm, current>>]_vars

\* A session/update of unknown kind was read during a turn, which went on to
\* yield text and to end with done.
C27_Witness ==
  /\ left.unknowns < MaxUnknowns
  /\ \E o \in Ops :
       /\ op[o].kind = "chat" /\ op[o].yielded # <<>>
       /\ op[o].yielded[Len(op[o].yielded)].type = "done"
       /\ \E i \in DOMAIN op[o].yielded : op[o].yielded[i].type = "token"

\* C28: a parsed line is handled as one thing only; a line that carries a
\* method and the identifier of a live pending request completes that request
\* and is not dispatched as an incoming request as well: the step in which a
\* line completes a pending request writes no reply frame.
C28_OneHandling ==
  [][(\E i \in Live : i \notin Live' /\ process' = process /\ child' = child
                      /\ timers' = timers \ {i})
       => reply' = reply]_vars

\* The identifiers somebody is waiting on.
Awaited ==
  {op[o].req : o \in {q \in Ops : op[q].res.st = "pending"}}
    \cup {op[o].preq : o \in {q \in Ops : op[q].pres.st = "pending"}}
    \cup {disp[d].req : d \in Disps}

\* C29: request identifiers are distinct and strictly increasing in allocation
\* order over the whole life of the client, cleanup, dispose and re-spawn
\* included: every identifier pending, timed or awaited is one of those issued
\* so far, no two callers await the same one, the counter never decreases, and
\* the identifiers a step registers are exactly those above the counter, so
\* the next one is greater than every one issued.
C29_IdsIncrease ==
  /\ [](/\ Live \cup timers \cup (Awaited \ {0}) \subseteq 1..requestId
        /\ NextId \notin Live
        /\ \A o, q \in Ops :
             o # q /\ op[o].req # 0 /\ op[o].req \in Live => op[q].req # op[o].req)
  /\ [][/\ requestId' >= requestId
        /\ Live' \ Live = (requestId + 1)..requestId'
        /\ requestId' <= requestId + 1]_vars

\* A second child was spawned after the first was cleaned up, and a request
\* to it is pending.
C29_Witness ==
  /\ Len(child) >= 2 /\ disposed
  /\ \E i \in Live : pending[i].child = 2 /\ i > 2

\* The establishment led by o fails in this step.
EstablishmentFails(o) ==
  op[o].pc # "ensure_finally" /\ op'[o].pc = "ensure_finally" /\ op'[o].est.st = "err"

\* The callers awaiting the establishment led by o.
Followers(o) == {p \in Ops : op[p].pc = "follow" /\ op[p].leader = o}

\* C31: when an establishment fails while several callers await it, each of
\* them is handed that same failure, no session identifier is recorded, the
\* leader's next step releases the in-flight marker, and a caller that arrives
\* after the release leads an establishment of its own (a caller that arrives
\* before the release is one more of the awaiting callers).
C31_FailureShared ==
  [][/\ \A o \in Ops : EstablishmentFails(o) =>
          /\ \A p \in Followers(o) : op'[p].est = op'[o].est /\ op'[p].pc = "follow"
          /\ sessionId' = 0
     /\ \A o \in Ops : op[o].pc = "ensure_finally" /\ op'[o].pc # "ensure_finally" =>
          sessionLock' = 0
     /\ \A p \in Ops : op[p].pc = "follow" /\ op'[p].pc = "follow" =>
          op[p].est.st = "pending" \/ op'[p].est = op[p].est
     /\ nops' = nops + 1 /\ op'[nops'].kind \in {"chat", "ensure"} =>
          IF sessionLock = 0
            THEN /\ sessionLock' = nops' /\ op'[nops'].est.st = "pending"
                 /\ op'[nops'].pc \in {"initialize", "do_ensure"}
            ELSE op'[nops'].pc = "follow" /\ op'[nops'].est = op[sessionLock].est
    ]_vars

\* The step is a dispose() call that finds a child it can write to.
DisposeStarts == left'.disposes < left.disposes /\ CanSend(process, child)

\* The step signals child c.
Signals(c) == child'[c].killed /\ ~child[c].killed

HandlesRequest == reply' # reply /\ reply'.asked \notin Live

Appended(o) == SubSeq(op'[o].sent, Len(op[o].sent) + 1, Len(op'[o].sent))

\* The events that translate notifications.
Translated(es) == SelectSeq(es, LAMBDA e : ~Terminal(e) /\ e.type # "context_usage")

\* The numbers of the notifications the step reads, in reading order.
ReadNow == [k \in 1..(nnotif' - nnotif) |-> nnotif + k]

\* The subscriber list is in registration order: a step leaves it alone,
\* registers one turn at its end, removes one turn, or empties it.
RegistrationOrder ==
  \/ notifications' = notifications
  \/ \E o \in Ops \ Subscribed : notifications' = Append(notifications, o)
  \/ \E o \in Subscribed : notifications' = Without(notifications, o)
  \/ notifications' = <<>>

\* C34: every notification read is handed exactly once to every turn
\* subscribed when it is read, and to nobody else; a turn gets the
\* notifications of a read in the order of their frames, and those of a
\* later read after those of an earlier one; a turn that subscribes later
\* gets nothing of what was read before.  The subscriber list, which the
\* dispatch walks from its head, is kept in registration order.
C34_NotificationFanOut ==
  [][/\ \A o \in Ops :
          LET ns == Translated(Appended(o)) IN
          IF o \in Subscribed /\ op[o].pc # "finished"
            THEN [k \in DOMAIN ns |-> ns[k].n] = ReadNow
            ELSE ns = <<>>
     /\ nnotif' >= nnotif
     /\ RegistrationOrder
    ]_vars

\* Two turns, the second subscribed after the first notification was read:
\* the first turn was handed notifications 1 and 2, the second only 2.
C34_Witness ==
  \E o, p \in Ops :
    /\ o # p /\ notifications = <<o, p>>
    /\ Len(op[o].sent) = 2 /\ op[o].sent[1].n = 1 /\ op[o].sent[2].n = 2
    /\ Len(op[p].sent) = 1 /\ op[p].sent[1].n = 2

\* C35: once initialize has succeeded on a child a persistent subscriber is
\* installed, so that a kiro.dev/metadata notification with
\* contextUsagePercentage p (the value 2) read while no turn is running makes
\* getContextUsage() return p.
C35_PersistentSubscriber ==
  [][(ReadsUsage /\ initialized /\ notifications = <<>>) => contextUsage' = 2]_vars

\* The lines the step completes: those of the kept text and the chunk read.
LinesRead ==
  Split(buffer \o ToString(SubSeq(stream, nread + 1, nread')), <<>>, <<>>).lines

\* Those among them that hold JSON text.
GoodLines ==
  {i \in DOMAIN LinesRead : Trim(LinesRead[i]) # <<>> /\ ~Malformed(Trim(LinesRead[i]))}

\* C36: a malformed line is discarded and nothing else happens on it: the
\* pending table, the subscriber list and the session state are as before.
\* The well-formed lines before and after it, those of the same read
\* included, are dispatched, each once and in order.
C36_MalformedDiscarded ==
  [][/\ Len(dispatched') = Len(dispatched) + Cardinality(GoodLines)
     /\ SubSeq(dispatched', 1, Len(dispatched)) = dispatched
     /\ \A i \in GoodLines :
          dispatched'[Len(dispatched) + Cardinality({j \in GoodLines : j <= i})]
            = Trim(LinesRead[i])
     /\ \A k \in DOMAIN dispatched' : ~Malformed(dispatched'[k])
     /\ UNCHANGED <<process, child, pending, timers, notifications, sessionId,
                    initialized, models, modes, contextUsage, compacting, commands,
                    sessionLock, persisted, op, disp>>
    ]_vars

\* A stream of three lines, the second malformed, has been read in one read:
\* the first and the third were dispatched.
C36_Witness ==
  /\ stream = <<"j", "nl", "x", "nl", "j", "nl">>
  /\ nread = Len(stream) /\ buffer = <<>>
  /\ dispatched = <<<<"j">>, <<"j">>>>

\* The compaction events the step pushes into the queue of turn o, in order.
CompactionEvents(o) == SelectSeq(Appended(o), LAMBDA e : e.type = "compaction")

\* The step is a cleanup.
CleansUp == process # 0 /\ process' = 0

\* C37: isCompacting() is false at the start and after a cleanup.  A
\* compaction notification read during a turn pushes compaction{status} into
\* the turn's queue, in receipt order and with "unknown" for a missing
\* status, and sets the flag to (status = "in_progress"); nothing else changes
\* the flag, so it is the value of the latest such notification handled.  The
\* turn yields what was pushed, in that order.
C37_CompactionFlag ==
  /\ compacting = FALSE
  /\ [][/\ CleansUp => compacting' = FALSE
        /\ \A o \in Subscribed :
             LET es == CompactionEvents(o) IN
             /\ op[o].pc # "finished" =>
                  [k \in DOMAIN Translated(Appended(o)) |-> Translated(Appended(o))[k].n]
                    = ReadNow
             /\ \A k \in DOMAIN es : es[k].text \in {"in_progress", "complete", "unknown"}
             /\ es # <<>> => compacting' = (es[Len(es)].text = "in_progress")
        /\ compacting' # compacting =>
             \/ CleansUp
             \/ \E o \in Subscribed : CompactionEvents(o) # <<>>
        /\ \A o \in Ops :
             \A k \in DOMAIN op'[o].yielded :
               k <= Len(op'[o].sent) /\ op'[o].yielded[k] = op'[o].sent[k]
       ]_vars

\* A turn has yielded compaction{in_progress} and then compaction{unknown},
\* and isCompacting() is false again.
C37_Witness ==
  \E o \in Ops :
    /\ ~compacting /\ Len(op[o].yielded) >= 2
    /\ op[o].yielded[1] = Event("compaction", 1, "in_progress")
    /\ op[o].yielded[2] = Event("compaction", 2, "unknown")

\* C38: a recorded session identifier implies that the initialized flag is
\* set, and a set initialized flag implies that a child is held.
\* The three are reset together and set only on a successful response of
\* the held child: a step that changes the handle leaves no session and no
\* flag, the flag is raised by the continuation of a fulfilled initialize
\* request, and an identifier is recorded by the continuation of a fulfilled
\* session/load or session/new request, with the handle unchanged.
C38_SessionImpliesChild ==
  /\ [](/\ sessionId # 0 => initialized
        /\ initialized => process # 0)
  /\ [][/\ process' # process => sessionId' = 0 /\ ~initialized'
        /\ (initialized' /\ ~initialized) =>
             /\ process # 0 /\ process' = process
             /\ \E o \in Ops : op[o].pc \in {"initialize", "test"} /\ op[o].res.st = "ok"
        /\ (sessionId' # 0 /\ sessionId' # sessionId) =>
             /\ process # 0 /\ process' = process
             /\ \E o \in Ops : op[o].pc \in {"load", "new"} /\ op[o].res.st = "ok"
       ]_vars

\* A session is recorded on the second child, the first having been dropped
\* by a cleanup; the agents have created two sessions in the run.
C38_Witness ==
  /\ Len(child) = 2 /\ process = 2 /\ initialized /\ sessionId # 0
  /\ nsid > OldSid + 1

\* The turns that are subscribed and have not ended.
Listening == {o \in Subscribed : op[o].pc # "finished"}

\* The terminal events the step pushes into the queue of turn o.
TerminalsPushed(o) == SelectSeq(Appended(o), Terminal)

DeadlineError == Event("error", 0, TimedOut("session/prompt"))

\* The deadline of the prompt of turn o has passed without a response.
PromptTimedOut(o) ==
  op[o].kind = "chat" /\ op[o].pc # "finished" /\ op[o].pres = ErrRes(TimedOut("session/prompt"))

\* The places of the deadline error in the queue history of turn o.
DeadlinePlaces(o) == {k \in DOMAIN op[o].sent : op[o].sent[k] = DeadlineError}

\* C40: the request deadline bounds a turn.  When the timer of the turn's
\* session/prompt request fires, the turn is handed an error event that names
\* the timeout, whether or not notifications are still coming in, and the
\* turn yields it.  What was pushed before the error is yielded before it, in
\* order; the error is the last event the turn yields: notifications read
\* after it add nothing to what the turn yields, and a response read for the
\* request after its deadline changes no turn.
C40_DeadlineBoundsTurn ==
  /\ [](\A o \in Ops : \A k \in DeadlinePlaces(o) :
          /\ Len(op[o].yielded) <= k
          /\ \A j \in DOMAIN op[o].yielded : op[o].yielded[j] = op[o].sent[j])
  /\ [][/\ \A o \in Ops :
             (PromptTimedOut(o) /\ op'[o].pres.st = "pending") =>
                Appended(o) = <<DeadlineError>>
        /\ (late'.read /\ ~late.read /\ nnotif' = nnotif) => op' = op
       ]_vars
  /\ \A o \in Ops :
       PromptTimedOut(o) ~>
         (op[o].yielded # <<>> /\ op[o].yielded[Len(op[o].yielded)] = DeadlineError)

\* A turn has yielded an event and then the deadline error, while a
\* notification read after the deadline sits in its queue behind the error.
C40_Witness ==
  \E o \in Ops :
    /\ Len(op[o].sent) = 3 /\ op[o].sent[2] = DeadlineError
    /\ op[o].sent[3].n = 2
    /\ op[o].yielded = SubSeq(op[o].sent, 1, 2)

====
